---- MODULE Spec2Model ----
(***************************************************************************)
(* RequestQueueBatcher<T> (src/devOpcuaSup/RequestQueueBatcher.h):         *)
(* three FIFO queues (one per EPICS priority, each with its own mutex), a  *)
(* parameter block with its own mutex, a binary wake event and one worker  *)
(* thread that collects batches, delivers them to the consumer and sleeps  *)
(* a hold-off time interpolated from the batch size.                       *)
(*                                                                         *)
(* Threads: the worker ("w"), the owner of the object ("m": constructor,   *)
(* startWorker, destructor) and the client threads that call pushRequest,  *)
(* clear and setParams.  Every lock acquisition and release is a step of   *)
(* its own; the statements a thread executes between two lock operations   *)
(* are one step, except where an unlocked access of another thread can     *)
(* observe them.                                                           *)
(*                                                                         *)
(* double values are computed as the machine does: every operation rounds *)
(* its exact result to the nearest IEEE 754 binary64 number.               *)
(***************************************************************************)
EXTENDS Integers, Sequences, FiniteSets, TLC

\* ------------------------------------------------------------------ bounds
\* items handed to pushRequest, size of a cargo vector, calls of the clients
MaxItems == 2
MaxVec == 2
MaxCalls == 2

\* ------------------------------------------------- menuPriority (EPICS)
menuPriorityLOW == 0
menuPriorityMEDIUM == 1
menuPriorityHIGH == 2
menuPriority_NUM_CHOICES == 3
Prio == menuPriorityLOW .. (menuPriority_NUM_CHOICES - 1)

\* ---------------------------------------------------------------- threads
Worker == "w"
Main == "m"
Clients == {"c1", "c2"}
\* The clients that also call clear() and setParams().
Admins == {"c1"}
\* The clients that also call pushRequest with a vector.
Senders == {"c2"}
NoThread == "none"

\* Arguments <<maxRequestsPerBatch, minHoldOff, maxHoldOff>> (msec) that the
\* constructor and setParams are called with.
ParamChoices == {<<0, 0, 0>>, <<1, 10, 100>>, <<2, 10, 100>>}

\* The arguments, the items and the calls of the runs that look at the
\* hold-off time.
HoldChoices == {<<10, 10, 100>>, <<0, 0, 0>>, <<2, 100, 10>>, <<1, 10, 100>>}
MaxHoldItems == 5
MaxHoldCalls == 5

\* The arguments of the runs that look at the order of the priorities.
PrioChoices == {<<1, 10, 100>>, <<2, 10, 100>>}

\* --------------------------------------------------- double arithmetic
\* The code computes the hold-off times in double (IEEE 754 binary64,
\* round to nearest, ties to even).  Natural numbers of any size are kept
\* as sequences of limbs, least significant first, without leading zeros.
\* The operations are functions, so that every argument is a value.
LimbBits == 15
LimbBase == 2 ^ LimbBits
\* bits of the significand of a double
MantBits == 53

Abs(x) == IF x < 0 THEN -x ELSE x

Big == Seq(Nat)

BNorm[x \in Big] ==
    IF x # <<>> /\ x[Len(x)] = 0 THEN BNorm[SubSeq(x, 1, Len(x) - 1)] ELSE x

BFromInt[n \in Nat] ==
    IF n = 0 THEN <<>> ELSE <<n % LimbBase>> \o BFromInt[n \div LimbBase]

BToInt[x \in Big] ==
    IF x = <<>> THEN 0 ELSE x[1] + LimbBase * BToInt[Tail(x)]

BRest(x) == IF x = <<>> THEN <<>> ELSE Tail(x)
BLow(x) == IF x = <<>> THEN 0 ELSE x[1]

BAddC[x \in Big, y \in Big, c \in Nat] ==
    IF x = <<>> /\ y = <<>>
    THEN (IF c = 0 THEN <<>> ELSE <<c>>)
    ELSE <<(BLow(x) + BLow(y) + c) % LimbBase>>
             \o BAddC[BRest(x), BRest(y),
                      (BLow(x) + BLow(y) + c) \div LimbBase]

BAdd[x \in Big, y \in Big] == BAddC[x, y, 0]

BSubB[x \in Big, y \in Big, b \in Nat] ==
    IF x = <<>> THEN <<>>
    ELSE IF x[1] - BLow(y) - b < 0
         THEN <<x[1] - BLow(y) - b + LimbBase>>
                  \o BSubB[Tail(x), BRest(y), 1]
         ELSE <<x[1] - BLow(y) - b>> \o BSubB[Tail(x), BRest(y), 0]

\* x - y for x >= y
BSub[x \in Big, y \in Big] == BNorm[BSubB[x, y, 0]]

BCmpAt[x \in Big, y \in Big, i \in Nat] ==
    IF i = 0 THEN 0
    ELSE IF x[i] < y[i] THEN -1
    ELSE IF x[i] > y[i] THEN 1
    ELSE BCmpAt[x, y, i - 1]

\* -1, 0, 1 as x < y, x = y, x > y
BCmp[x \in Big, y \in Big] ==
    IF Len(x) < Len(y) THEN -1
    ELSE IF Len(x) > Len(y) THEN 1
    ELSE BCmpAt[x, y, Len(x)]

BMulSmallC[x \in Big, k \in Nat, c \in Nat] ==
    IF x = <<>> THEN BFromInt[c]
    ELSE <<(x[1] * k + c) % LimbBase>>
             \o BMulSmallC[Tail(x), k, (x[1] * k + c) \div LimbBase]

\* x * k for 0 <= k <= LimbBase
BMulSmall[x \in Big, k \in Nat] == BNorm[BMulSmallC[x, k, 0]]

BShiftLimb(x) == IF x = <<>> THEN <<>> ELSE <<0>> \o x

BMul[x \in Big, y \in Big] ==
    IF y = <<>> THEN <<>>
    ELSE BAdd[BMulSmall[x, y[1]], BShiftLimb(BMul[x, Tail(y)])]

BDivSmallAt[x \in Big, k \in Nat, i \in Nat, r \in Nat, q \in Big] ==
    IF i = 0 THEN <<BNorm[q], r>>
    ELSE BDivSmallAt[x, k, i - 1, (r * LimbBase + x[i]) % k,
                     <<(r * LimbBase + x[i]) \div k>> \o q]

\* <<x div k, x mod k>> for 0 < k <= LimbBase
BDivSmall[x \in Big, k \in Nat] == BDivSmallAt[x, k, Len(x), 0, <<>>]

\* bit i (1 = least significant) of x
BBit(x, i) ==
    (x[(i - 1) \div LimbBits + 1] \div (2 ^ ((i - 1) % LimbBits))) % 2

\* One step of the long division: <<quotient, remainder>> with one more bit
BDivStep[q \in Big, r \in Big, d \in Big] ==
    IF BCmp[r, d] >= 0 THEN <<BAdd[q, <<1>>], BSub[r, d]>> ELSE <<q, r>>

BDivBits[x \in Big, d \in Big, i \in Nat, qr \in Big \X Big] ==
    IF i = 0 THEN qr
    ELSE BDivBits[x, d, i - 1,
                  BDivStep[BAdd[qr[1], qr[1]],
                           BAdd[BAdd[qr[2], qr[2]],
                                IF BBit(x, i) = 1 THEN <<1>> ELSE <<>>],
                           d]]

IntBitLen[n \in Nat] == IF n = 0 THEN 0 ELSE 1 + IntBitLen[n \div 2]

\* number of bits of x
BBitLen[x \in Big] ==
    IF x = <<>> THEN 0
    ELSE LimbBits * (Len(x) - 1) + IntBitLen[x[Len(x)]]

BDivOneLimb[qr \in Big \X Nat] == <<qr[1], BFromInt[qr[2]]>>

\* <<x div d, x mod d>> for d > 0
BDivMod[x \in Big, d \in Big] ==
    IF Len(d) = 1 THEN BDivOneLimb[BDivSmall[x, d[1]]]
    ELSE BDivBits[x, d, BBitLen[x], <<<<>>, <<>>>>]

\* x * 2^n
BShl[x \in Big, n \in Nat] ==
    IF x = <<>> THEN <<>>
    ELSE [i \in 1 .. (n \div LimbBits) |-> 0]
             \o BMulSmall[x, 2 ^ (n % LimbBits)]

BShrParts[qr \in Big \X Nat, low \in Big] ==
    <<qr[1], qr[2] # 0 \/ \E i \in 1 .. Len(low) : low[i] # 0>>

\* <<x div 2^n, x mod 2^n # 0>>
BShr[x \in Big, n \in Nat] ==
    BShrParts[BDivSmall[SubSeq(x, n \div LimbBits + 1, Len(x)),
                        2 ^ (n % LimbBits)],
              SubSeq(x, 1, IF n \div LimbBits < Len(x)
                           THEN n \div LimbBits ELSE Len(x))]

IntLowZeros[n \in Nat] == IF n % 2 = 1 THEN 0 ELSE 1 + IntLowZeros[n \div 2]

\* number of zero bits below the lowest one bit of x # 0
BLowZeros[x \in Big] ==
    IF x[1] = 0 THEN LimbBits + BLowZeros[Tail(x)] ELSE IntLowZeros[x[1]]

\* A double is <<s, m, e>>: the value s * m * 2^e with s = 1 or -1 and m a
\* natural number of MantBits bits; 0.0 is DZero (the sign of a zero does
\* not influence any result the code uses).  The values of the program are
\* far from the overflow and the subnormal range.
Double == {1, -1} \X Big \X Int
DZero == <<1, <<>>, 0>>

\* Rounding of s * (2 * q + g) * 2^(e - 1) to s * q' * 2^e: q has MantBits
\* bits, g is the bit below it and st says whether lower bits are set
DRoundUp[s \in {1, -1}, q \in Big, g \in {0, 1}, st \in BOOLEAN, e \in Int] ==
    IF g = 1 /\ (st \/ q[1] % 2 = 1)
    THEN IF BBitLen[BAdd[q, <<1>>]] > MantBits
         THEN <<s, BDivSmall[BAdd[q, <<1>>], 2][1], e + 1>>
         ELSE <<s, BAdd[q, <<1>>], e>>
    ELSE <<s, q, e>>

DRoundCut[s \in {1, -1}, qg \in Big \X Nat, st \in BOOLEAN, e \in Int] ==
    DRoundUp[s, qg[1], qg[2], st, e]

DRoundLong[s \in {1, -1}, h \in Big \X BOOLEAN, e \in Int] ==
    DRoundCut[s, BDivSmall[h[1], 2], h[2], e]

\* The double nearest to s * n * 2^e (n a natural number), ties to even
DRoundLen[s \in {1, -1}, n \in Big, e \in Int, len \in Nat] ==
    IF len = 0 THEN DZero
    ELSE IF len <= MantBits
    THEN <<s, BShl[n, MantBits - len], e - (MantBits - len)>>
    ELSE DRoundLong[s, BShr[n, len - MantBits - 1], e + len - MantBits]

DRound[s \in {1, -1}, n \in Big, e \in Int] == DRoundLen[s, n, e, BBitLen[n]]

\* static_cast<double>(n) of an integer
DFromInt[n \in Int] == DRound[IF n < 0 THEN -1 ELSE 1, BFromInt[Abs(n)], 0]

DIsZero(x) == x[2] = <<>>

\* x > 0.0
DPositive(x) == ~DIsZero(x) /\ x[1] = 1

DNeg[x \in Double] == IF DIsZero(x) THEN x ELSE <<-x[1], x[2], x[3]>>

\* a * 2^e - b * 2^e with the sign s of a, for c = BCmp[a, b]
DDiff[s \in {1, -1}, a \in Big, b \in Big, e \in Int, c \in {-1, 0, 1}] ==
    IF c = 0 THEN DZero
    ELSE IF c > 0 THEN DRound[s, BSub[a, b], e]
    ELSE DRound[-s, BSub[b, a], e]

\* sx * a * 2^e + sy * b * 2^e
DSum[sx \in {1, -1}, a \in Big, sy \in {1, -1}, b \in Big, e \in Int] ==
    IF sx = sy THEN DRound[sx, BAdd[a, b], e]
    ELSE DDiff[sx, a, b, e, BCmp[a, b]]

DAlign[x \in Double, y \in Double, e \in Int] ==
    DSum[x[1], BShl[x[2], x[3] - e], y[1], BShl[y[2], y[3] - e], e]

\* x + y
DAdd[x \in Double, y \in Double] ==
    IF DIsZero(x) THEN y
    ELSE IF DIsZero(y) THEN x
    ELSE DAlign[x, y, IF x[3] < y[3] THEN x[3] ELSE y[3]]

\* x - y
DSub[x \in Double, y \in Double] == DAdd[x, DNeg[y]]

\* x * y + z with one rounding (fused multiply-add): the exact product is
\* added to z and the sum is rounded; with z = 0.0 the product is rounded
DFma[x \in Double, y \in Double, z \in Double] ==
    LET s == x[1] * y[1]
        n == BMul[x[2], y[2]]
        e == x[3] + y[3]
    IN  IF DIsZero(x) \/ DIsZero(y) THEN z
        ELSE IF DIsZero(z) THEN DRound[s, n, e]
        ELSE DAlign[<<s, n, e>>, z, IF e < z[3] THEN e ELSE z[3]]

\* x * y
DMul[x \in Double, y \in Double] ==
    IF DIsZero(x) \/ DIsZero(y) THEN DZero
    ELSE DRound[x[1] * y[1], BMul[x[2], y[2]], x[3] + y[3]]

\* The quotient with one more bit that says whether a remainder is left
DQuot[s \in {1, -1}, qr \in Big \X Big, e \in Int] ==
    DRound[s, BAdd[BAdd[qr[1], qr[1]],
                   IF qr[2] = <<>> THEN <<>> ELSE <<1>>], e - 1]

\* x / (sy * d * 2^e) for an odd d
DDivOdd[x \in Double, sy \in {1, -1}, d \in Big, e \in Int] ==
    DQuot[x[1] * sy, BDivMod[BShl[x[2], MantBits + 3], d],
          x[3] - e - (MantBits + 3)]

DDivLow[x \in Double, y \in Double, tz \in Nat] ==
    DDivOdd[x, y[1], BShr[y[2], tz][1], y[3] + tz]

\* x / y for y # 0.0: the quotient of the significands with three bits more
\* than the result has
DDiv[x \in Double, y \in Double] ==
    IF DIsZero(x) THEN DZero ELSE DDivLow[x, y, BLowZeros[y[2]]]

\* The literal 1e3
Thousand == DFromInt[1000]

\* ------------------------------------------------------------- setParams
\* holdOffVar as written by setParams (lines 203-205): assigned only when
\* maxRequestsPerBatch is non-zero, otherwise the old value stays.
NewHoldOffVar(old, mb, mn, mx) ==
    IF mb # 0
    THEN IF mx # 0
         THEN DDiv[DSub[DFromInt[mx], DFromInt[mn]],
                   DMul[DFromInt[mb], Thousand]]
         ELSE DZero
    ELSE old

\* holdOffFix as written by setParams (line 206).
NewHoldOffFix(mn) == DDiv[DFromInt[mn], Thousand]

\* The hold-off without the batch size
HoldOffCalcNoSize(fix, var, n) == {DAdd[fix, var]}

\* a + b * c in double, as the expression of lines 226 and 265 is compiled:
\* the product and the sum are rounded one after the other, or, where the
\* compiler contracts the expression to a fused multiply-add (the default
\* of g++ for targets that have the instruction), the sum is rounded only.
\* The set of the values the builds produce.
MulAdd(a, b, c) == {DAdd[a, DMul[b, c]], DFma[b, c, a]}

\* holdOff = holdOffFix + holdOffVar * batch.size()  (line 265): the values
\* the builds produce
HoldOffCalc(fix, var, n) == MulAdd(fix, var, DFromInt[n])

\* ------------------------------------------------------ tabulated values
\* The values of the three computations above for the arguments of the
\* runs with many states, computed once; for any other argument the
\* lookups compute.
KnownArgs == ParamChoices \cup HoldChoices \cup PrioChoices
KnownMsec == {a[2] : a \in KnownArgs}
KnownVarArgs == {a \in KnownArgs : a[1] # 0}
KnownSizes == 0 .. MaxHoldItems

HoldOffFixTable == [mn \in KnownMsec |-> NewHoldOffFix(mn)]

HoldOffVarTable ==
    [a \in KnownVarArgs |-> NewHoldOffVar(DZero, a[1], a[2], a[3])]

KnownFix == {HoldOffFixTable[mn] : mn \in KnownMsec}
KnownVar == {DZero} \cup {HoldOffVarTable[a] : a \in KnownVarArgs}

HoldOffTable ==
    [fix \in KnownFix |->
        [var \in KnownVar |->
            [n \in KnownSizes |-> HoldOffCalc(fix, var, n)]]]

\* NewHoldOffFix(mn)
HoldOffFixOf(mn) ==
    IF mn \in KnownMsec THEN HoldOffFixTable[mn] ELSE NewHoldOffFix(mn)

\* NewHoldOffVar(old, mb, mn, mx)
HoldOffVarOf(old, mb, mn, mx) ==
    IF mb = 0 THEN old
    ELSE IF <<mb, mn, mx>> \in KnownVarArgs
    THEN HoldOffVarTable[<<mb, mn, mx>>]
    ELSE NewHoldOffVar(old, mb, mn, mx)

\* HoldOffCalc(fix, var, n)
HoldOffOf(fix, var, n) ==
    IF fix \in KnownFix /\ var \in KnownVar /\ n \in KnownSizes
    THEN HoldOffTable[fix][var][n]
    ELSE HoldOffCalc(fix, var, n)

\* --------------------------------------------------------- worker helpers
HasRoomOffByOne(mx, b) == mx = 0 \/ Len(b) <= mx

\* The test without !max: a limit of 0 leaves no room at all
HasRoomNoZero(mx, b) == Len(b) < mx

\* if (!max || batch.size() < max)  (lines 249 and 251)
HasRoom(mx, b) == mx = 0 \/ Len(b) < mx

\* A loop over the priorities that begins below the highest one
LoopStartMid == menuPriorityMEDIUM

\* for (int prio = menuPriority_NUM_CHOICES - 1; ...): the first priority
LoopStart == menuPriority_NUM_CHOICES - 1

\* DrainLoop that calls pop() before front(): the head is lost
RECURSIVE DrainLoopDrop(_, _, _)
DrainLoopDrop(q, b, mx) ==
    IF Len(q) # 0 /\ (mx = 0 \/ Len(b) < mx)
    THEN DrainLoopDrop(Tail(q),
                       IF Tail(q) # <<>> THEN Append(b, Head(Tail(q))) ELSE b,
                       mx)
    ELSE <<q, b>>

\* DrainLoop that puts the item at the front of the batch
RECURSIVE DrainLoopFront(_, _, _)
DrainLoopFront(q, b, mx) ==
    IF Len(q) # 0 /\ (mx = 0 \/ Len(b) < mx)
    THEN DrainLoopFront(Tail(q), <<Head(q)>> \o b, mx)
    ELSE <<q, b>>

\* The while loop of lines 251-254: moves items from the front of the queue
\* to the end of the batch.  Result <<queue, batch>>.
RECURSIVE DrainLoop(_, _, _)
DrainLoop(q, b, mx) ==
    IF Len(q) # 0 /\ HasRoom(mx, b)
    THEN DrainLoop(Tail(q), Append(b, Head(q)), mx)
    ELSE <<q, b>>

QueuePushFront(q, x) == <<x>> \o q

\* std::queue::push (lines 135, 154)
QueuePush(q, x) == Append(q, x)

\* ------------------------------------------------------------------ state
VARIABLES
    queue,          \* queue[p]: sequence of item ids, head first
    lock,           \* lock[p]: thread that holds lock[p], or NoThread
    paramLock,      \* thread that holds paramLock, or NoThread
    maxBatchSize,   \* unsigned maxBatchSize
    holdOffVar,     \* double holdOffVar, as <<s, m, e>>
    holdOffFix,     \* double holdOffFix, as <<s, m, e>>
    workToDo,       \* epicsEvent workToDo: TRUE = full
    workerShutdown, \* bool workerShutdown
    mpc,            \* owner thread: "created", "running", then the
                    \* destructor: "d_sig", "d_join", "stopped"
    wpc,            \* worker position in run()
    wprio,          \* worker: loop variable prio
    max,            \* worker: local max
    batch,          \* worker: local batch
    holdOff,        \* worker: local holdOff, as <<s, m, e>>
    cpc,            \* cpc[t]: position of client t
    cprio,          \* cprio[t]: priority argument / loop variable of client t
    ctodo,          \* ctodo[t]: items of the cargo of client t not yet pushed
    cargs,          \* cargs[t]: setParams arguments of client t
    vis,            \* vis[p]: who is synchronised with the last write of
                    \* queue[p]: "w" the worker, "ev" the event, "none"
    shutSeen,       \* worker has synchronised with the write of workerShutdown
    \* history (not program state)
    pushLog,        \* pushLog[i]: priority item i was pushed with
    done,           \* items of the calls of processRequests that have returned
    cleared,        \* items removed by clear()
    hoInfo,         \* what line 265 read in this cycle: <<n, args, fix, var>>
    args,           \* arguments of the last setParams that ran
    snapArgs,       \* args when the worker read max in this cycle
    residue,        \* this cycle passed a queue that held items when its
                    \* batch was full
    vecs,           \* vecs[t]: items the running vector push of t appended
    delivered,      \* the batches passed to processRequests, in order
    relEmpty,       \* priorities whose queue the worker left empty when it
                    \* released the queue's lock in this cycle
    shutMark,       \* number of calls of processRequests begun before
                    \* workerShutdown was set (-1: not set)
    budget,         \* items the clients may still hand to pushRequest
    calls,          \* calls the clients may still make
    str,            \* splitString: the argument str, a sequence of characters
    tokens,         \* splitString: the list returned
    spc,            \* splitString: "idle", "call" or "done"
    pacc,           \* pacc[t]: the call of maxRequests(), minHoldOff() or
                    \* maxHoldOff() that client t is in: the members it
                    \* has read so far (defined for the clients in a call)
    pret            \* pret[t]: what the last such call of t returned:
                    \* <<name, value, args, quiet>> (defined for the clients
                    \* that have returned from one)

progVars == <<queue, lock, paramLock, maxBatchSize, holdOffVar, holdOffFix,
              workToDo, workerShutdown, mpc, wpc, wprio, max, batch, holdOff,
              cpc, cprio, ctodo, cargs, vis, shutSeen>>
histVars == <<pushLog, done, cleared, hoInfo, args, snapArgs, residue,
              vecs, delivered, relEmpty, shutMark>>
envVars == <<budget, calls>>
splitVars == <<str, tokens, spc>>
accVars == <<pacc, pret>>
vars == <<progVars, histVars, envVars, splitVars, accVars>>

Items == 1 .. MaxItems
NoArgs == <<0, 0, 0>>
NoInfo == <<0, NoArgs, DZero, DZero>>
\* An accessor call that has read nothing: each member read is a set, empty
\* until read
NoCall == [call |-> "none", mb |-> {}, var |-> {}, fix |-> {},
           from |-> NoArgs, quiet |-> FALSE]

\* ------------------------------------------------------------ constructor
\* Lines 95-109: members initialised, setParams() on the constructor
\* arguments, startWorker() if startWorkerNow.
InitBatcher(choices, n, c) ==
    \E a \in choices, startWorkerNow \in BOOLEAN :
        /\ queue = [p \in Prio |-> <<>>]
        /\ lock = [p \in Prio |-> NoThread]
        /\ paramLock = NoThread
        /\ maxBatchSize = a[1]
        /\ holdOffVar = HoldOffVarOf(DZero, a[1], a[2], a[3])
        /\ holdOffFix = HoldOffFixOf(a[2])
        /\ workToDo = FALSE
        /\ workerShutdown = FALSE
        /\ mpc = IF startWorkerNow THEN "running" ELSE "created"
        /\ wpc = IF startWorkerNow THEN "wait" ELSE "idle"
        /\ wprio = menuPriorityHIGH
        /\ max = 0
        /\ batch = <<>>
        /\ holdOff = DZero
        /\ cpc = [t \in Clients |-> "idle"]
        /\ cprio = [t \in Clients |-> menuPriorityLOW]
        /\ ctodo = [t \in Clients |-> 0]
        /\ cargs = [t \in Clients |-> NoArgs]
        /\ vis = [p \in Prio |-> "w"]
        /\ shutSeen = FALSE
        /\ pushLog = <<>>
        /\ done = {}
        /\ cleared = {}
        /\ hoInfo = NoInfo
        /\ args = a
        /\ snapArgs = NoArgs
        /\ residue = FALSE
        /\ vecs = [t \in Clients |-> <<>>]
        /\ delivered = <<>>
        /\ relEmpty = {}
        /\ shutMark = -1
        /\ budget = n
        /\ calls = c
        /\ pacc = [t \in {} |-> NoCall]
        /\ pret = [t \in {} |-> NoArgs]

\* splitString is not being called
SplitIdle == str = <<>> /\ tokens = <<>> /\ spc = "idle"

InitWith(choices, n, c) == InitBatcher(choices, n, c) /\ SplitIdle

Init == InitWith(ParamChoices, MaxItems, MaxCalls)


\* ---------------------------------------------------------------- helpers
\* The object is alive: its destructor has not been entered.
Alive == mpc \in {"created", "running"}

\* A signal that is not latched: it is lost unless the worker is waiting
SignalPulse(t) ==
    /\ workToDo' = (workToDo \/ wpc = "wait")
    /\ vis' = [p \in Prio |->
                 IF lock[p] = t /\ vis[p] = "none" THEN "ev" ELSE vis[p]]

\* epicsEvent::signal by thread t: the event becomes full; what t has
\* written to the queues whose lock it holds is published with the event.
Signal(t) ==
    /\ workToDo' = TRUE
    /\ vis' = [p \in Prio |->
                 IF lock[p] = t /\ vis[p] = "none" THEN "ev" ELSE vis[p]]

\* A client thread has written queue[p] (under lock[p]): no other thread is
\* synchronised with that write yet.
ClientWrote(p) == vis' = [vis EXCEPT ![p] = "none"]

\* ------------------------------------------------ pushRequest(cargo, prio)
\* Line 134: Guard G(lock[priority])
PushLock(t, p) ==
    /\ Alive
    /\ cpc[t] = "idle"
    /\ budget >= 1 /\ calls >= 1
    /\ budget' = budget - 1
    /\ calls' = calls - 1
    /\ lock[p] = NoThread
    /\ lock' = [lock EXCEPT ![p] = t]
    /\ cpc' = [cpc EXCEPT ![t] = "p_push"]
    /\ cprio' = [cprio EXCEPT ![t] = p]
    /\ ctodo' = [ctodo EXCEPT ![t] = 1]
    /\ UNCHANGED <<queue, paramLock, maxBatchSize, holdOffVar, holdOffFix,
                   workToDo, workerShutdown, mpc, wpc, wprio, max, batch,
                   holdOff, cargs, vis, shutSeen, pushLog, done, cleared,
                   hoInfo, args, snapArgs, residue, vecs, delivered, relEmpty,
                   splitVars, accVars,
                   shutMark>>

\* Line 135: queue[priority].push(cargo)
PushPush(t) ==
    /\ cpc[t] = "p_push"
    /\ LET p == cprio[t]
           nq == QueuePush(queue[p], Len(pushLog) + 1)
       IN  /\ queue' = [queue EXCEPT ![p] = nq]
           /\ pushLog' = Append(pushLog, p)
           /\ ClientWrote(p)
    /\ ctodo' = [ctodo EXCEPT ![t] = 0]
    /\ cpc' = [cpc EXCEPT ![t] = "p_sig"]
    /\ UNCHANGED <<lock, paramLock, maxBatchSize, holdOffVar, holdOffFix,
                   workToDo, workerShutdown, mpc, wpc, wprio, max, batch,
                   holdOff, cprio, cargs, shutSeen, done, cleared, hoInfo,
                   args, snapArgs, residue, budget, calls, vecs, delivered,
                   relEmpty, splitVars, accVars,
                   shutMark>>

\* Lines 136-137: workToDo.signal(), then the Guard releases lock[priority]
PushSignal(t) ==
    /\ cpc[t] = "p_sig"
    /\ Signal(t)
    /\ lock' = [lock EXCEPT ![cprio[t]] = NoThread]
    /\ cpc' = [cpc EXCEPT ![t] = "idle"]
    /\ cprio' = [cprio EXCEPT ![t] = menuPriorityLOW]
    /\ UNCHANGED <<queue, paramLock, maxBatchSize, holdOffVar, holdOffFix,
                   workerShutdown, mpc, wpc, wprio, max, batch, holdOff, ctodo,
                   cargs, shutSeen, histVars, envVars, splitVars, accVars>>

\* ------------------------------------- pushRequest(vector<cargo>, prio)
\* Line 152: Guard G(lock[priority]); k is cargo.size()
PushVecLock(t, p, k) ==
    /\ Alive
    /\ cpc[t] = "idle"
    /\ budget >= k /\ calls >= 1
    /\ budget' = budget - k
    /\ calls' = calls - 1
    /\ lock[p] = NoThread
    /\ lock' = [lock EXCEPT ![p] = t]
    /\ cpc' = [cpc EXCEPT ![t] = "v_push"]
    /\ cprio' = [cprio EXCEPT ![t] = p]
    /\ ctodo' = [ctodo EXCEPT ![t] = k]
    /\ vecs' = [vecs EXCEPT ![t] = <<>>]
    /\ UNCHANGED <<queue, paramLock, maxBatchSize, holdOffVar, holdOffFix,
                   workToDo, workerShutdown, mpc, wpc, wprio, max, batch,
                   holdOff, cargs, vis, shutSeen, pushLog, done, cleared,
                   hoInfo, args, snapArgs, residue, delivered, relEmpty,
                   splitVars, accVars,
                   shutMark>>

\* The lock is taken for each item and released after it
VecGuardPerItem(l, p) == [l EXCEPT ![p] = NoThread]

\* Lines 152-156: Guard G(lock[priority]) is declared before the loop and
\* lives to the end of the function: an iteration leaves the lock held
VecGuard(l, p) == l

\* Lines 153-154: one iteration of  for (auto it : cargo) queue.push(it)
PushVecPush(t) ==
    /\ cpc[t] = "v_push"
    /\ ctodo[t] > 0
    /\ LET p == cprio[t]
           nq == QueuePush(queue[p], Len(pushLog) + 1)
       IN  /\ queue' = [queue EXCEPT ![p] = nq]
           /\ pushLog' = Append(pushLog, p)
           /\ ClientWrote(p)
    /\ ctodo' = [ctodo EXCEPT ![t] = @ - 1]
    /\ vecs' = [vecs EXCEPT ![t] = Append(@, Len(pushLog) + 1)]
    /\ lock' = VecGuard(lock, cprio[t])
    /\ UNCHANGED <<paramLock, maxBatchSize, holdOffVar, holdOffFix,
                   workToDo, workerShutdown, mpc, wpc, wprio, max, batch,
                   holdOff, cpc, cprio, cargs, shutSeen, done, cleared, hoInfo,
                   args, snapArgs, residue, budget, calls, delivered,
                   relEmpty, splitVars, accVars,
                   shutMark>>

\* Lines 155-156: workToDo.signal(), after the loop (also for an empty
\* cargo), then the Guard releases lock[priority]
PushVecSignal(t) ==
    /\ cpc[t] = "v_push"
    /\ ctodo[t] = 0
    /\ Signal(t)
    /\ lock' = [lock EXCEPT ![cprio[t]] = NoThread]
    /\ cpc' = [cpc EXCEPT ![t] = "idle"]
    /\ cprio' = [cprio EXCEPT ![t] = menuPriorityLOW]
    /\ vecs' = [vecs EXCEPT ![t] = <<>>]
    /\ UNCHANGED <<queue, paramLock, maxBatchSize, holdOffVar, holdOffFix,
                   workerShutdown, mpc, wpc, wprio, max, batch, holdOff, ctodo,
                   cargs, shutSeen, pushLog, done, cleared, hoInfo, args,
                   snapArgs, residue, envVars, delivered, relEmpty, splitVars,
                   accVars,
                   shutMark>>

\* ----------------------------------------------------------------- clear()
\* Lines 182-183: Guard G(lock[prio]), prio starting at the highest priority
ClearLock(t) ==
    /\ \/ cpc[t] = "idle" /\ Alive
       \/ cpc[t] = "c_next"
    /\ LET p == IF cpc[t] = "idle" THEN menuPriority_NUM_CHOICES - 1
                ELSE cprio[t]
       IN  /\ lock[p] = NoThread
           /\ lock' = [lock EXCEPT ![p] = t]
           /\ cprio' = [cprio EXCEPT ![t] = p]
    /\ cpc' = [cpc EXCEPT ![t] = "c_pop"]
    /\ IF cpc[t] = "idle"
       THEN calls >= 1 /\ calls' = calls - 1
       ELSE calls' = calls
    /\ UNCHANGED <<queue, paramLock, maxBatchSize, holdOffVar, holdOffFix,
                   workToDo, workerShutdown, mpc, wpc, wprio, max, batch,
                   holdOff, ctodo, cargs, vis, shutSeen, histVars, budget,
                   splitVars, accVars>>

\* The items of a sequence
Range(q) == {q[i] : i \in 1 .. Len(q)}

ClearUnlockNot(l, p) == l

\* Line 187: the Guard of clear() releases lock[prio] at the end of the
\* loop body
ClearUnlock(l, p) == [l EXCEPT ![p] = NoThread]

\* An if in place of the while of line 184: one item is popped
ClearLoopOnce(q) == IF q # <<>> THEN Tail(q) ELSE q

\* Lines 184-186: while (!queue[prio].empty()) queue[prio].pop()
RECURSIVE ClearLoop(_)
ClearLoop(q) == IF q # <<>> THEN ClearLoop(Tail(q)) ELSE q

\* Lines 184-187: pop until the queue is empty, release the lock, prio--
ClearPop(t) ==
    /\ cpc[t] = "c_pop"
    /\ LET p == cprio[t]
       IN  /\ queue' = [queue EXCEPT ![p] = ClearLoop(queue[p])]
           /\ cleared' = cleared \cup
                             (Range(queue[p]) \ Range(ClearLoop(queue[p])))
           /\ IF queue[p] # <<>>
              THEN ClientWrote(p)
              ELSE UNCHANGED vis
           /\ lock' = ClearUnlock(lock, p)
           /\ IF p - 1 >= menuPriorityLOW
              THEN /\ cprio' = [cprio EXCEPT ![t] = p - 1]
                   /\ cpc' = [cpc EXCEPT ![t] = "c_next"]
              ELSE /\ cprio' = [cprio EXCEPT ![t] = menuPriorityLOW]
                   /\ cpc' = [cpc EXCEPT ![t] = "idle"]
    /\ UNCHANGED <<paramLock, maxBatchSize, holdOffVar, holdOffFix, workToDo,
                   workerShutdown, mpc, wpc, wprio, max, batch, holdOff, ctodo,
                   cargs, shutSeen, pushLog, done, hoInfo, args, snapArgs,
                   residue, budget, calls, vecs, delivered, relEmpty,
                   splitVars, accVars,
                   shutMark>>

\* ------------------------------------------------------------- setParams
\* Line 201: Guard G(paramLock); a = the arguments of the call
SetParamsLock(t, a) ==
    /\ Alive
    /\ cpc[t] = "idle"
    /\ paramLock = NoThread
    /\ paramLock' = t
    /\ cargs' = [cargs EXCEPT ![t] = a]
    /\ cpc' = [cpc EXCEPT ![t] = "s_body"]
    /\ calls >= 1
    /\ calls' = calls - 1
    /\ UNCHANGED <<queue, lock, maxBatchSize, holdOffVar, holdOffFix, workToDo,
                   workerShutdown, mpc, wpc, wprio, max, batch, holdOff, cprio,
                   ctodo, vis, shutSeen, histVars, budget, splitVars, accVars>>

\* Lines 202-207: the three assignments, then the Guard releases paramLock.
\* They are one step: the worker reads the members under paramLock, and the
\* accessors, which take no lock, read each member in a step of their own
\* (ParamAccRead), so that a call can return a mix of members of different
\* setParams calls.
SetParamsBody(t) ==
    /\ cpc[t] = "s_body"
    /\ LET a == cargs[t]
       IN  /\ maxBatchSize' = a[1]
           /\ holdOffVar' = HoldOffVarOf(holdOffVar, a[1], a[2], a[3])
           /\ holdOffFix' = HoldOffFixOf(a[2])
           /\ args' = a
    /\ paramLock' = NoThread
    /\ cargs' = [cargs EXCEPT ![t] = NoArgs]
    /\ cpc' = [cpc EXCEPT ![t] = "idle"]
    /\ UNCHANGED <<queue, lock, workToDo, workerShutdown, mpc, wpc, wprio, max,
                   batch, holdOff, cprio, ctodo, vis, shutSeen, pushLog, done,
                   cleared, hoInfo, snapArgs, residue, budget, calls, vecs,
                   delivered, relEmpty, splitVars, accVars,
                   shutMark>>

\* ------------------------------------------- startWorker and destructor
\* Line 121: worker.start()
StartWorker ==
    /\ mpc = "created"
    /\ mpc' = "running"
    /\ wpc' = "wait"
    /\ UNCHANGED <<queue, lock, paramLock, maxBatchSize, holdOffVar,
                   holdOffFix, workToDo, workerShutdown, wprio, max, batch,
                   holdOff, cpc, cprio, ctodo, cargs, vis, shutSeen, histVars,
                   envVars, splitVars, accVars>>

\* Line 113: workerShutdown = true
DtorShutdown ==
    /\ Alive
    /\ workerShutdown' = TRUE
    /\ mpc' = "d_sig"
    /\ shutMark' = Len(delivered)
    /\ UNCHANGED <<queue, lock, paramLock, maxBatchSize, holdOffVar,
                   holdOffFix, workToDo, wpc, wprio, max, batch, holdOff, cpc,
                   cprio, ctodo, cargs, vis, shutSeen, pushLog, done, cleared,
                   hoInfo, args, snapArgs, residue, vecs, delivered, relEmpty,
                   envVars, splitVars, accVars>>

\* Line 114: workToDo.signal()
DtorSignal ==
    /\ mpc = "d_sig"
    /\ workToDo' = TRUE
    /\ mpc' = "d_join"
    /\ UNCHANGED <<queue, lock, paramLock, maxBatchSize, holdOffVar,
                   holdOffFix, workerShutdown, wpc, wprio, max, batch, holdOff,
                   cpc, cprio, ctodo, cargs, vis, shutSeen, histVars, envVars,
                   splitVars, accVars>>

\* The destructor does not wait for the worker thread
ExitWaitNoJoin(w) == TRUE

\* Line 115: worker.exitWait() can return: run() has returned, or the
\* thread was never started
ExitWait(w) == w \in {"idle", "exited"}

\* Line 115: worker.exitWait() returns
DtorJoin ==
    /\ mpc = "d_join"
    /\ ExitWait(wpc)
    /\ mpc' = "stopped"
    /\ UNCHANGED <<queue, lock, paramLock, maxBatchSize, holdOffVar,
                   holdOffFix, workToDo, workerShutdown, wpc, wprio, max,
                   batch, holdOff, cpc, cprio, ctodo, cargs, vis, shutSeen,
                   histVars, envVars, splitVars, accVars>>


\* ------------------------------------------------------ worker: run()
\* The worker never takes the break of line 237
ShutdownReadNever == {FALSE}

\* Results the unlocked read of workerShutdown (line 237) can give: the
\* value written, once the worker has synchronised with the destructor's
\* signal; before that a read that races with the write gives either value.
ShutdownRead ==
    IF shutSeen THEN {TRUE}
    ELSE IF workerShutdown THEN BOOLEAN ELSE {FALSE}

\* Results the unlocked read queue[prio].empty() (line 256) can give: the
\* emptiness of the queue if the worker is synchronised with its last write;
\* a read that races with a write gives either result.
EmptyRead(p) == IF vis[p] = "w" THEN {queue[p] = <<>>} ELSE BOOLEAN

WantSignalNever(e) == FALSE

\* Line 256: if (!queue[prio].empty()) -> signal; e is the result of empty()
WantSignal(e) == ~e

\* Line 236: workToDo.wait() returns, the event is empty again.  The worker
\* is now synchronised with every thread that signalled before.
WWait ==
    /\ wpc = "wait"
    /\ workToDo
    /\ workToDo' = FALSE
    /\ vis' = [p \in Prio |-> IF vis[p] = "ev" THEN "w" ELSE vis[p]]
    /\ shutSeen' = (shutSeen \/ mpc \in {"d_join", "stopped"})
    /\ wpc' = "chk"
    /\ residue' = FALSE
    /\ UNCHANGED <<queue, lock, paramLock, maxBatchSize, holdOffVar,
                   holdOffFix, workerShutdown, mpc, wprio, max, batch, holdOff,
                   cpc, cprio, ctodo, cargs, pushLog, done, cleared, hoInfo,
                   args, snapArgs, envVars, vecs, delivered, relEmpty,
                   splitVars, accVars,
                   shutMark>>

\* Line 237: if (workerShutdown) break
WCheck ==
    /\ wpc = "chk"
    /\ \E sd \in ShutdownRead :
          wpc' = IF sd THEN "exited" ELSE "snap_lock"
    /\ UNCHANGED <<queue, lock, paramLock, maxBatchSize, holdOffVar,
                   holdOffFix, workToDo, workerShutdown, mpc, wprio, max,
                   batch, holdOff, cpc, cprio, ctodo, cargs, vis, shutSeen,
                   histVars, envVars, splitVars, accVars>>

\* Line 243: Guard G(paramLock)
WSnapLock ==
    /\ wpc = "snap_lock"
    /\ paramLock = NoThread
    /\ paramLock' = Worker
    /\ wpc' = "snap"
    /\ UNCHANGED <<queue, lock, maxBatchSize, holdOffVar, holdOffFix, workToDo,
                   workerShutdown, mpc, wprio, max, batch, holdOff, cpc, cprio,
                   ctodo, cargs, vis, shutSeen, histVars, envVars, splitVars,
                   accVars>>

\* Lines 240-248: batch is empty, max = maxBatchSize, the Guard releases
\* paramLock, prio = highest priority
WSnap ==
    /\ wpc = "snap"
    /\ max' = maxBatchSize
    /\ snapArgs' = args
    /\ paramLock' = NoThread
    /\ batch' = <<>>
    /\ relEmpty' = {}
    /\ wprio' = LoopStart
    /\ wpc' = "loop"
    /\ UNCHANGED <<queue, lock, maxBatchSize, holdOffVar, holdOffFix, workToDo,
                   workerShutdown, mpc, holdOff, cpc, cprio, ctodo, cargs, vis,
                   shutSeen, pushLog, done, cleared, hoInfo, args, residue,
                   budget, calls, vecs, delivered, splitVars, accVars,
                   shutMark>>

\* Line 249, condition false: the batch is full, lock[prio] is not taken
WLoopSkip ==
    /\ wpc = "loop"
    /\ ~HasRoom(max, batch)
    /\ wpc' = "resid"
    /\ UNCHANGED <<queue, lock, paramLock, maxBatchSize, holdOffVar,
                   holdOffFix, workToDo, workerShutdown, mpc, wprio, max,
                   batch, holdOff, cpc, cprio, ctodo, cargs, vis, shutSeen,
                   histVars, envVars, splitVars, accVars>>

\* Lines 249-250, condition true: Guard G(lock[prio])
WLoopLock ==
    /\ wpc = "loop"
    /\ HasRoom(max, batch)
    /\ lock[wprio] = NoThread
    /\ lock' = [lock EXCEPT ![wprio] = Worker]
    /\ vis' = [vis EXCEPT ![wprio] = "w"]
    /\ wpc' = "drain"
    /\ UNCHANGED <<queue, paramLock, maxBatchSize, holdOffVar, holdOffFix,
                   workToDo, workerShutdown, mpc, wprio, max, batch, holdOff,
                   cpc, cprio, ctodo, cargs, shutSeen, histVars, envVars,
                   splitVars, accVars>>

\* The Guard of line 250 is not released (the lock is kept)
DrainUnlockNot(l, p) == l

\* Line 255: the scope of Guard G(lock[prio]) ends, lock[prio] is released
DrainUnlock(l, p) == [l EXCEPT ![p] = NoThread]

\* Lines 251-255: the while loop, then the Guard releases lock[prio]
WDrain ==
    /\ wpc = "drain"
    /\ LET r == DrainLoop(queue[wprio], batch, max)
       IN  /\ queue' = [queue EXCEPT ![wprio] = r[1]]
           /\ batch' = r[2]
    /\ lock' = DrainUnlock(lock, wprio)
    /\ relEmpty' = IF queue'[wprio] = <<>> THEN relEmpty \cup {wprio}
                                            ELSE relEmpty
    /\ wpc' = "resid"
    /\ UNCHANGED <<paramLock, maxBatchSize, holdOffVar, holdOffFix, workToDo,
                   workerShutdown, mpc, wprio, max, holdOff, cpc, cprio, ctodo,
                   cargs, vis, shutSeen, pushLog, done, cleared, hoInfo,
                   args, snapArgs, residue, vecs, delivered, envVars,
                   splitVars, accVars,
                   shutMark>>

\* Lines 256-258 and the loop's prio--: the unlocked emptiness test, the
\* signal, the next priority or the end of the loop
WResid ==
    /\ wpc = "resid"
    /\ \E e \in EmptyRead(wprio) :
          workToDo' = (workToDo \/ WantSignal(e))
    /\ residue' = (residue \/ ( /\ max # 0
                                /\ Len(batch) >= max
                                /\ queue[wprio] # <<>> ))
    /\ IF wprio - 1 >= menuPriorityLOW
       THEN /\ wprio' = wprio - 1
            /\ wpc' = "loop"
       ELSE /\ wprio' = LoopStart
            /\ wpc' = "proc"
    /\ UNCHANGED <<queue, lock, paramLock, maxBatchSize, holdOffVar,
                   holdOffFix, workerShutdown, mpc, max, batch, holdOff, cpc,
                   cprio, ctodo, cargs, vis, shutSeen, pushLog, done, cleared,
                   hoInfo, args, snapArgs, budget, calls, vecs, delivered,
                   relEmpty, splitVars, accVars,
                   shutMark>>

\* The consumer is called for every batch
NotEmptyAlways(b) == TRUE

\* Line 260: if (!batch.empty())
NotEmpty(b) == b # <<>>

\* Lines 260-261: consumer.processRequests(batch) is entered if the batch
\* is not empty
WProcess ==
    /\ wpc = "proc"
    /\ wpc' = IF NotEmpty(batch) THEN "inproc" ELSE "ho_lock"
    /\ delivered' = IF NotEmpty(batch) THEN Append(delivered, batch)
                                       ELSE delivered
    /\ UNCHANGED <<queue, lock, paramLock, maxBatchSize, holdOffVar,
                   holdOffFix, workToDo, workerShutdown, mpc, wprio, max,
                   batch, holdOff, cpc, cprio, ctodo, cargs, vis, shutSeen,
                   pushLog, done, cleared, hoInfo, args, snapArgs, residue,
                   vecs, envVars, relEmpty, splitVars, accVars,
                   shutMark>>

\* Line 261: processRequests returns
WProcessReturn ==
    /\ wpc = "inproc"
    /\ done' = done \cup Range(batch)
    /\ wpc' = "ho_lock"
    /\ UNCHANGED <<queue, lock, paramLock, maxBatchSize, holdOffVar,
                   holdOffFix, workToDo, workerShutdown, mpc, wprio, max,
                   batch, holdOff, cpc, cprio, ctodo, cargs, vis, shutSeen,
                   pushLog, cleared, hoInfo, args, snapArgs, residue, budget,
                   calls, vecs, delivered, relEmpty, splitVars, accVars,
                   shutMark>>

\* Line 264: Guard G(paramLock)
WHoldOffLock ==
    /\ wpc = "ho_lock"
    /\ paramLock = NoThread
    /\ paramLock' = Worker
    /\ wpc' = "ho"
    /\ UNCHANGED <<queue, lock, maxBatchSize, holdOffVar, holdOffFix, workToDo,
                   workerShutdown, mpc, wprio, max, batch, holdOff, cpc, cprio,
                   ctodo, cargs, vis, shutSeen, histVars, envVars, splitVars,
                   accVars>>

\* Lines 265-270: holdOff is computed (to one of the values the builds
\* produce), the Guard releases paramLock, the batch goes out of scope,
\* sleep(holdOff) is entered if holdOff > 0.0
WHoldOff ==
    /\ wpc = "ho"
    /\ holdOff' \in HoldOffOf(holdOffFix, holdOffVar, Len(batch))
    /\ hoInfo' = <<Len(batch), args, holdOffFix, holdOffVar>>
    /\ paramLock' = NoThread
    /\ batch' = <<>>
    /\ relEmpty' = {}
    /\ wpc' = IF DPositive(holdOff') THEN "sleeping" ELSE "nosleep"
    /\ UNCHANGED <<queue, lock, maxBatchSize, holdOffVar, holdOffFix, workToDo,
                   workerShutdown, mpc, wprio, max, cpc, cprio, ctodo, cargs,
                   vis, shutSeen, pushLog, done, cleared, args, snapArgs,
                   residue, budget, calls, vecs, delivered,
                   splitVars, accVars,
                   shutMark>>

\* Lines 270-272: sleep returns (or was not called); next iteration, whose
\* locals holdOff and max are fresh
WLoopBack ==
    /\ wpc \in {"sleeping", "nosleep"}
    /\ wpc' = "wait"
    /\ holdOff' = DZero
    /\ max' = 0
    /\ hoInfo' = NoInfo
    /\ snapArgs' = NoArgs
    /\ UNCHANGED <<queue, lock, paramLock, maxBatchSize, holdOffVar,
                   holdOffFix, workToDo, workerShutdown, mpc, wprio, batch,
                   cpc, cprio, ctodo, cargs, vis, shutSeen, pushLog, done,
                   cleared, args, residue, budget, calls, vecs, delivered,
                   relEmpty, shutMark, splitVars, accVars>>

\* ---------------------------------------------------------- specification
PushSteps(t) ==
    \/ \E p \in Prio : PushLock(t, p)
    \/ PushPush(t)
    \/ PushSignal(t)

PushVecSteps(t) ==
    \/ \E p \in Prio, k \in 0 .. MaxVec : PushVecLock(t, p, k)
    \/ PushVecPush(t)
    \/ PushVecSignal(t)

ClearSteps(t) ==
    \/ ClearLock(t)
    \/ ClearPop(t)

SetParamsSteps(t, choices) ==
    \/ \E a \in choices : SetParamsLock(t, a)
    \/ SetParamsBody(t)

WorkerStep ==
    \/ WWait
    \/ WCheck
    \/ WSnapLock
    \/ WSnap
    \/ WLoopSkip
    \/ WLoopLock
    \/ WDrain
    \/ WResid
    \/ WProcess
    \/ WProcessReturn
    \/ WHoldOffLock
    \/ WHoldOff
    \/ WLoopBack

DtorSteps ==
    \/ DtorShutdown
    \/ DtorSignal
    \/ DtorJoin

\* Hold-off: one client that pushes at one priority and sets parameters,
\* the worker, start.
NextHold ==
    \/ PushLock("c1", menuPriorityHIGH)
    \/ PushPush("c1")
    \/ PushSignal("c1")
    \/ SetParamsSteps("c1", HoldChoices)
    \/ WorkerStep
    \/ StartWorker

SpecHold == InitWith(HoldChoices, MaxHoldItems, MaxHoldCalls)
                /\ [][NextHold]_vars

\* Producers and the worker, no clear() and no destruction; every thread
\* that can take a step eventually takes one (the threads are scheduled,
\* locks are released, processRequests and sleep return).
ClientFinish(t) ==
    \/ PushPush(t)
    \/ PushSignal(t)
    \/ PushVecPush(t)
    \/ PushVecSignal(t)

NextLive ==
    \/ \E t \in Clients : PushSteps(t)
    \/ \E t \in Senders : PushVecSteps(t)
    \/ WorkerStep
    \/ StartWorker

SpecLive ==
    /\ Init
    /\ [][NextLive]_vars
    /\ WF_vars(WorkerStep)
    /\ \A t \in Clients : WF_vars(ClientFinish(t))

\* Every operation: both clients push single items, c2 also pushes vectors,
\* c1 also calls clear() and setParams().
Next ==
    \/ \E t \in Clients : PushSteps(t)
    \/ \E t \in Senders : PushVecSteps(t)
    \/ \E t \in Admins : ClearSteps(t)
    \/ \E t \in Admins : SetParamsSteps(t, ParamChoices)
    \/ WorkerStep
    \/ StartWorker
    \/ DtorSteps

Spec == Init /\ [][Next]_vars

\* Destruction: producers, the worker and the destructor.  The worker and
\* the destructor's thread are scheduled, a call of pushRequest that holds a
\* lock finishes, processRequests and sleep return.
NextShut ==
    \/ \E t \in Clients : PushSteps(t)
    \/ WorkerStep
    \/ StartWorker
    \/ DtorSteps

SpecShut ==
    /\ Init
    /\ [][NextShut]_vars
    /\ WF_vars(WorkerStep)
    /\ WF_vars(DtorSignal \/ DtorJoin)
    /\ \A t \in Clients : WF_vars(ClientFinish(t))

\* ---------------------------------------------------------------- accessors
\* No setParams is between its first and its last assignment
ParamsQuiet == \A t \in Clients : cpc[t] # "s_body"

\* unsigned int has 32 bits
UIntBits == 32
UIntLimit == BShl[<<1>>, UIntBits]

\* The integral part of |x|
Truncated(x) ==
    IF DIsZero(x) THEN <<>>
    ELSE IF x[3] >= 0 THEN BShl[x[2], x[3]]
    ELSE BShr[x[2], -x[3]][1]

\* The low UIntBits bits of the integer s * t
LowBits(s, t) ==
    LET low == BDivMod[t, UIntLimit][2]
    IN  IF s > 0 \/ low = <<>> THEN low ELSE BSub[UIntLimit, low]

\* The conversion goes through a signed integer of 64 bits on x86-64
LongBits == 64

\* static_cast<unsigned int>(x) for an x whose integral part s * t does not
\* fit (x <= -1.0 or x >= 2^32): the behaviour is undefined, and the builds
\* yield
\*  - the low bits of the 64-bit integer, which is 0x8000000000000000 when
\*    the value does not fit that either (x86-64, cvttsd2si),
\*  - all bits set (x86-64 with AVX-512, vcvttsd2usi),
\*  - the nearest unsigned int (AArch64, fcvtzu).
OutOfRange(s, t) ==
    LET ones == BSub[UIntLimit, <<1>>]
    IN  {IF BCmp[t, BShl[<<1>>, LongBits - 1]] < 0 THEN LowBits(s, t)
         ELSE <<>>,
         ones,
         IF s > 0 THEN ones ELSE <<>>}

\* static_cast<unsigned int>(x), the values a build may produce: the
\* fractional part is discarded; a result that does not fit is one of
\* OutOfRange.
ToUnsigned(x) ==
    LET t == Truncated(x)
    IN  IF t = <<>> \/ (x[1] > 0 /\ BCmp[t, UIntLimit] < 0) THEN {t}
        ELSE OutOfRange(x[1], t)

\* Line 213: maxRequests(), when it has read mb from maxBatchSize
maxRequests(mb) == {BFromInt[mb]}

\* Line 219: minHoldOff(), when it has read fix from holdOffFix
minHoldOff(fix) == ToUnsigned(DMul[fix, Thousand])

\* Lines 225-227: maxHoldOff(), when it has read fix, var and mb from
\* holdOffFix, holdOffVar and maxBatchSize
maxHoldOff(fix, var, mb) ==
    UNION {ToUnsigned(DMul[h, Thousand]) : h \in MulAdd(fix, var, DFromInt[mb])}

\* The members a call reads
AccessorNames == {"maxRequests", "minHoldOff", "maxHoldOff"}
MembersRead(name) ==
    CASE name = "maxRequests" -> {"mb"}
      [] name = "minHoldOff" -> {"fix"}
      [] name = "maxHoldOff" -> {"fix", "var", "mb"}
      [] OTHER -> {}
Member(m) ==
    CASE m = "mb" -> maxBatchSize
      [] m = "var" -> holdOffVar
      [] m = "fix" -> holdOffFix
TheOne(S) == CHOOSE x \in S : TRUE

\* The call a is unaffected so far by any setParams: none is running, and
\* the last one that ran is the one that had run when the call began
StillQuiet(a) == a.quiet /\ ParamsQuiet /\ args = a.from

\* Lines 213-227: the accessors take no lock.  A call is entered ...
ParamAccBegin(t, name) ==
    /\ Alive
    /\ cpc[t] = "idle"
    /\ calls >= 1
    /\ calls' = calls - 1
    /\ cpc' = [cpc EXCEPT ![t] = "a_read"]
    /\ pacc' = [u \in DOMAIN pacc \cup {t} |->
                    IF u = t
                    THEN [NoCall EXCEPT !.call = name, !.from = args,
                                        !.quiet = ParamsQuiet]
                    ELSE pacc[u]]
    /\ UNCHANGED <<queue, lock, paramLock, maxBatchSize, holdOffVar,
                   holdOffFix, workToDo, workerShutdown, mpc, wpc, wprio, max,
                   batch, holdOff, cprio, ctodo, cargs, vis, shutSeen,
                   histVars, budget, splitVars, pret>>

\* ... reads the members it needs, one at a time, in an order the build
\* chooses, while setParams may be assigning them ...
ParamAccRead(t) ==
    /\ cpc[t] = "a_read"
    /\ \E m \in MembersRead(pacc[t].call) :
          /\ pacc[t][m] = {}
          /\ pacc' = [pacc EXCEPT ![t] = [@ EXCEPT ![m] = {Member(m)},
                                                 !.quiet = StillQuiet(pacc[t])]]
    /\ UNCHANGED <<progVars, histVars, envVars, splitVars, pret>>

\* ... and returns a value computed from what it read
ParamAccValues(a) ==
    CASE a.call = "maxRequests" -> maxRequests(TheOne(a.mb))
      [] a.call = "minHoldOff" -> minHoldOff(TheOne(a.fix))
      [] a.call = "maxHoldOff" ->
            maxHoldOff(TheOne(a.fix), TheOne(a.var), TheOne(a.mb))

ParamAccEnd(t) ==
    /\ cpc[t] = "a_read"
    /\ \A m \in MembersRead(pacc[t].call) : pacc[t][m] # {}
    /\ \E v \in ParamAccValues(pacc[t]) :
          pret' = [u \in DOMAIN pret \cup {t} |->
                      IF u = t
                      THEN <<pacc[t].call, v, pacc[t].from,
                             StillQuiet(pacc[t])>>
                      ELSE pret[u]]
    /\ pacc' = [u \in DOMAIN pacc \ {t} |-> pacc[u]]
    /\ cpc' = [cpc EXCEPT ![t] = "idle"]
    /\ UNCHANGED <<queue, lock, paramLock, maxBatchSize, holdOffVar,
                   holdOffFix, workToDo, workerShutdown, mpc, wpc, wprio, max,
                   batch, holdOff, cprio, ctodo, cargs, vis, shutSeen,
                   histVars, envVars, splitVars>>

ParamAccSteps(t) ==
    \/ \E name \in AccessorNames : ParamAccBegin(t, name)
    \/ ParamAccRead(t)
    \/ ParamAccEnd(t)

\* Parameters: the constructor and calls of setParams by c1 with every
\* argument triple of a grid and some triples of larger values, and calls of
\* the accessors by c2.
MaxParamBatch == 1
MaxParamMsec == 1
MaxParamCalls == 3
ParamGrid ==
    ((0 .. MaxParamBatch) \X (0 .. MaxParamMsec) \X (0 .. MaxParamMsec))
        \cup {<<10, 10, 100>>, <<1, 1001, 2000>>, <<2, 100, 10>>,
              <<1, 10, 100>>, <<5, 517, 935>>}

NextParams ==
    \/ SetParamsSteps("c1", ParamGrid)
    \/ ParamAccSteps("c2")

SpecParams == InitWith(ParamGrid, 0, MaxParamCalls) /\ [][NextParams]_vars

\* Cap with residue: items of one priority that are all in the queue before
\* the worker's first drain, handed in by calls of pushRequest before
\* startWorker() or by one vector push; nothing is pushed afterwards.
MaxCapItems == 5
CapChoices == {<<1, 0, 0>>, <<2, 0, 0>>, <<3, 0, 0>>}

NextCap ==
    \/ \E p \in Prio :
          /\ mpc = "created"
          /\ \A i \in 1 .. Len(pushLog) : pushLog[i] = p
          /\ PushLock("c1", p)
    \/ PushPush("c1")
    \/ PushSignal("c1")
    \/ \E p \in Prio, k \in 1 .. MaxCapItems :
          budget = MaxCapItems /\ PushVecLock("c1", p, k)
    \/ PushVecPush("c1")
    \/ PushVecSignal("c1")
    \/ WorkerStep
    \/ StartWorker

SpecCap == InitWith(CapChoices, MaxCapItems, MaxCapItems) /\ [][NextCap]_vars

\* ------------------------------------------------------------ splitString
\* std::list<std::string> splitString(const std::string &str,
\*                                    const char delim);
\* its definition (linkParser) is not among the source files: the scan is
\* the one of section 4.3 of the specification, with the escape as the
\* expectations of LinkParserTest.cpp fix it.
defaultElementDelimiter == "."
Esc == "\\"

RECURSIVE SplitScan(_, _, _, _, _)
\* The scan from character i on; cur is the current token, acc the tokens
\* finished so far.  A backslash followed by the delimiter appends the
\* delimiter; a delimiter that is reached ends the token; every other
\* character (a backslash too) is appended.
SplitScan(s, delim, i, cur, acc) ==
    IF i > Len(s) THEN Append(acc, cur)
    ELSE IF s[i] = Esc /\ i < Len(s) /\ s[i + 1] = delim
         THEN SplitScan(s, delim, i + 2, Append(cur, delim), acc)
    ELSE IF s[i] = delim
         THEN SplitScan(s, delim, i + 1, <<>>, Append(acc, cur))
    ELSE SplitScan(s, delim, i + 1, Append(cur, s[i]), acc)

RECURSIVE ScanSkipEmpty(_, _, _, _, _)
\* As SplitScan, but an empty token is not added to the list
ScanSkipEmpty(s, delim, i, cur, acc) ==
    IF i > Len(s) THEN (IF cur = <<>> THEN acc ELSE Append(acc, cur))
    ELSE IF s[i] = Esc /\ i < Len(s) /\ s[i + 1] = delim
         THEN ScanSkipEmpty(s, delim, i + 2, Append(cur, delim), acc)
    ELSE IF s[i] = delim
         THEN ScanSkipEmpty(s, delim, i + 1, <<>>,
                            IF cur = <<>> THEN acc ELSE Append(acc, cur))
    ELSE ScanSkipEmpty(s, delim, i + 1, Append(cur, s[i]), acc)

RECURSIVE ScanNoEscape(_, _, _, _, _)
\* As SplitScan, but every delimiter ends the token
ScanNoEscape(s, delim, i, cur, acc) ==
    IF i > Len(s) THEN Append(acc, cur)
    ELSE IF s[i] = delim
         THEN ScanNoEscape(s, delim, i + 1, <<>>, Append(acc, cur))
    ELSE ScanNoEscape(s, delim, i + 1, Append(cur, s[i]), acc)

RECURSIVE ScanEscapeAny(_, _, _, _, _)
\* The scan in which a backslash is an escape for whatever character
\* follows it: the backslash is dropped and the next character appended
ScanEscapeAny(s, delim, i, cur, acc) ==
    IF i > Len(s) THEN Append(acc, cur)
    ELSE IF s[i] = Esc /\ i < Len(s)
         THEN ScanEscapeAny(s, delim, i + 2, Append(cur, s[i + 1]), acc)
    ELSE IF s[i] = delim
         THEN ScanEscapeAny(s, delim, i + 1, <<>>, Append(acc, cur))
    ELSE ScanEscapeAny(s, delim, i + 1, Append(cur, s[i]), acc)

SplitSkipEmpty(s, delim) == ScanSkipEmpty(s, delim, 1, <<>>, <<>>)
SplitNoEscape(s, delim) == ScanNoEscape(s, delim, 1, <<>>, <<>>)
SplitEscapeAny(s, delim) == ScanEscapeAny(s, delim, 1, <<>>, <<>>)

splitString(s, delim) == SplitScan(s, delim, 1, <<>>, <<>>)

\* The words, the delimiter and the backslash of the test strings
One == <<"o", "n", "e">>
Two == <<"t", "w", "o">>
Three == <<"t", "h", "r", "e", "e">>
Dot == <<".">>
Bsl == <<Esc>>
EscDot == Bsl \o Dot

\* LinkParserTest.cpp: the argument of splitString and the list expected,
\* one record for each TEST
TestCorpus ==
    { [s |-> <<>>, expect |-> << <<>> >>],
      [s |-> Dot, expect |-> << <<>>, <<>> >>],
      [s |-> Dot \o Dot, expect |-> << <<>>, <<>>, <<>> >>],
      [s |-> One, expect |-> <<One>>],
      [s |-> One \o Dot \o Two, expect |-> <<One, Two>>],
      [s |-> One \o Dot \o Two \o Dot \o Three,
       expect |-> <<One, Two, Three>>],
      [s |-> One \o EscDot \o Two, expect |-> <<One \o Dot \o Two>>],
      [s |-> One \o EscDot \o Two \o EscDot \o Three,
       expect |-> <<One \o Dot \o Two \o Dot \o Three>>],
      [s |-> One \o EscDot \o EscDot \o EscDot \o Two \o EscDot \o EscDot
                 \o Three,
       expect |-> <<One \o Dot \o Dot \o Dot \o Two \o Dot \o Dot
                        \o Three>>],
      [s |-> One \o EscDot \o EscDot \o Bsl \o EscDot \o Two \o EscDot
                 \o EscDot \o Bsl \o Three,
       expect |-> <<One \o Dot \o Dot \o Bsl \o Dot \o Two \o Dot \o Dot
                        \o Bsl \o Three>>],
      [s |-> Dot \o Two \o Dot \o Three, expect |-> << <<>>, Two, Three>>],
      [s |-> EscDot \o Dot \o Two \o Dot \o Three,
       expect |-> <<Dot, Two, Three>>],
      [s |-> Dot \o Dot \o Three, expect |-> << <<>>, <<>>, Three>>],
      [s |-> One \o Dot \o Two \o Dot, expect |-> <<One, Two, <<>> >>],
      [s |-> One \o Dot \o Dot, expect |-> <<One, <<>>, <<>> >>] }

\* Arguments of the calls: every string of up to MaxStrLen characters out
\* of a letter, the delimiter and the backslash, and the test strings
MaxStrLen == 4
SplitChars == {"a", defaultElementDelimiter, Esc}
SplitInputs ==
    UNION {[1 .. n -> SplitChars] : n \in 0 .. MaxStrLen}
        \cup {c.s : c \in TestCorpus}

InitSplit ==
    /\ InitBatcher({NoArgs}, 0, 0)
    /\ str \in SplitInputs
    /\ tokens = <<>>
    /\ spc = "call"

\* splitString(str) is called and returns
SplitCall ==
    /\ spc = "call"
    /\ tokens' = splitString(str, defaultElementDelimiter)
    /\ spc' = "done"
    /\ UNCHANGED <<progVars, histVars, envVars, str, accVars>>

SpecSplit == InitSplit /\ [][SplitCall]_vars

\* Priorities across batches: one producer that queues items of any
\* priority before startWorker() and pushes a last item during the
\* hold-off after the first batch.
MaxPrioItems == 3

NextPrio ==
    \/ \E p \in Prio :
          /\ mpc = "created"
          /\ budget > 1
          /\ PushLock("c1", p)
    \/ \E p \in Prio :
          /\ wpc = "sleeping"
          /\ Len(delivered) = 1
          /\ budget = 1
          /\ PushLock("c1", p)
    \/ PushPush("c1")
    \/ PushSignal("c1")
    \/ WorkerStep
    \/ StartWorker

SpecPrio ==
    InitWith(PrioChoices, MaxPrioItems, MaxPrioItems) /\ [][NextPrio]_vars

\* Unlimited batches: one producer queues items of any priority before
\* startWorker(); the worker is started when every push has returned, so
\* that its first wake finds all the items.
MaxUnlItems == 6
UnlChoices == {<<0, 0, 0>>, <<1, 0, 0>>}

NextUnl ==
    \/ \E p \in Prio : mpc = "created" /\ PushLock("c1", p)
    \/ PushPush("c1")
    \/ PushSignal("c1")
    \/ WorkerStep
    \/ (\A t \in Clients : cpc[t] = "idle") /\ StartWorker

SpecUnl == InitWith(UnlChoices, MaxUnlItems, MaxUnlItems) /\ [][NextUnl]_vars

\* clear() without a concurrent push: c2 pushes, c1 calls clear(); no call
\* of pushRequest begins or is in progress while clear() runs.  The worker
\* runs at any time.
MaxClrItems == 2
MaxClrCalls == 4
Clearing(t) == cpc[t] \in {"c_pop", "c_next"}

NextClear ==
    \/ \E p \in Prio : ~Clearing("c1") /\ PushLock("c2", p)
    \/ PushPush("c2")
    \/ PushSignal("c2")
    \/ cpc["c1"] = "idle" /\ cpc["c2"] = "idle" /\ ClearLock("c1")
    \/ cpc["c1"] = "c_next" /\ ClearLock("c1")
    \/ ClearPop("c1")
    \/ WorkerStep
    \/ StartWorker

SpecClear ==
    InitWith(ParamChoices, MaxClrItems, MaxClrCalls) /\ [][NextClear]_vars

\* ------------------------------------------------------- empty() and size()
\* Lines 166 and 176: the accessors take no lock.  A call is entered ...
AccessorBegin(t, p, pos) ==
    /\ Alive
    /\ cpc[t] = "idle"
    /\ calls >= 1
    /\ calls' = calls - 1
    /\ cpc' = [cpc EXCEPT ![t] = pos]
    /\ cprio' = [cprio EXCEPT ![t] = p]
    /\ UNCHANGED <<queue, lock, paramLock, maxBatchSize, holdOffVar,
                   holdOffFix, workToDo, workerShutdown, mpc, wpc, wprio, max,
                   batch, holdOff, ctodo, cargs, vis, shutSeen, histVars,
                   budget, splitVars, accVars>>

\* ... and returns what it read from queue[priority]
AccessorEnd(t, pos) ==
    /\ cpc[t] = pos
    /\ cpc' = [cpc EXCEPT ![t] = "idle"]
    /\ cprio' = [cprio EXCEPT ![t] = menuPriorityLOW]
    /\ UNCHANGED <<queue, lock, paramLock, maxBatchSize, holdOffVar,
                   holdOffFix, workToDo, workerShutdown, mpc, wpc, wprio, max,
                   batch, holdOff, ctodo, cargs, vis, shutSeen, histVars,
                   envVars, splitVars, accVars>>

\* Line 166: bool empty(priority) const { return queue[priority].empty(); }
EmptyBegin(t, p) == AccessorBegin(t, p, "e_read")
EmptyEnd(t) == AccessorEnd(t, "e_read")

\* Line 176: size_t size(priority) const { return queue[priority].size(); }
SizeBegin(t, p) == AccessorBegin(t, p, "z_read")
SizeEnd(t) == AccessorEnd(t, "z_read")

\* Queue accesses: c2 pushes, c1 pushes, clears and calls empty() and
\* size(), the worker runs.
MaxGuardItems == 2
MaxGuardCalls == 3

NextGuard ==
    \/ \E t \in Clients : PushSteps(t)
    \/ \E p \in Prio : PushVecLock("c2", p, MaxGuardItems)
    \/ PushVecPush("c2")
    \/ PushVecSignal("c2")
    \/ ClearSteps("c1")
    \/ \E p \in Prio : EmptyBegin("c1", p)
    \/ EmptyEnd("c1")
    \/ \E p \in Prio : SizeBegin("c1", p)
    \/ SizeEnd("c1")
    \/ WorkerStep
    \/ StartWorker

SpecGuard ==
    InitWith(ParamChoices, MaxGuardItems, MaxGuardCalls) /\ [][NextGuard]_vars

\* ------------------------------------------------------------------ claims
Pushed == 1 .. Len(pushLog)
Count(q, x) ==
    IF q = <<>> THEN 0 ELSE Cardinality({i \in 1 .. Len(q) : q[i] = x})

\* The worker holds items in its batch that processRequests has not returned
InHand == wpc \in {"loop", "drain", "resid", "proc", "inproc"}

\* Number of places item x is in
Places(x) ==
    Count(queue[menuPriorityLOW], x) + Count(queue[menuPriorityMEDIUM], x)
    + Count(queue[menuPriorityHIGH], x)
    + (IF InHand THEN Count(batch, x) ELSE 0)
    + (IF x \in done THEN 1 ELSE 0)
    + (IF x \in cleared THEN 1 ELSE 0)

Held == UNION {Range(queue[p]) : p \in Prio} \cup Range(batch) \cup done
            \cup cleared

\* C1: every pushed item is in exactly one place (its priority's queue, the
\* worker's batch, delivered, cleared); no item is delivered twice; nothing
\* is held or delivered that was not pushed.
C1_ExactlyOnePlace ==
    /\ \A x \in Pushed : Places(x) = 1
    /\ Held \subseteq Pushed
    /\ \A p \in Prio : \A x \in Range(queue[p]) : pushLog[x] = p

\* One item delivered, one removed by clear(), the batcher destroyed.
C1_Witness ==
    /\ mpc = "stopped"
    /\ done # {}
    /\ cleared # {}

\* C2: in a call of processRequests the items of one priority are in push
\* order, and were pushed after every item of that priority delivered by an
\* earlier call.
C2_Fifo ==
    wpc = "inproc" =>
        /\ \A i, j \in 1 .. Len(batch) :
              (i < j /\ pushLog[batch[i]] = pushLog[batch[j]])
                  => batch[i] < batch[j]
        /\ \A i \in 1 .. Len(batch) : \A y \in done :
              pushLog[y] = pushLog[batch[i]] => y < batch[i]

\* A second worker cycle delivers an item of a priority after an earlier one.
C2_Witness ==
    /\ wpc = "inproc"
    /\ \E i \in 1 .. Len(batch) : \E y \in done :
          pushLog[y] = pushLog[batch[i]]

\* C3: in a call of processRequests no item precedes an item of a higher
\* priority.
C3_PriorityOrder ==
    wpc = "inproc" =>
        \A i, j \in 1 .. Len(batch) :
            i < j => pushLog[batch[i]] >= pushLog[batch[j]]

\* A batch with items of two priorities.
C3_Witness ==
    /\ wpc = "inproc"
    /\ \E i, j \in 1 .. Len(batch) : pushLog[batch[i]] # pushLog[batch[j]]

\* C4: with a non-zero max read at the start of the cycle the batch never
\* has more than max items.
C4_SizeCap ==
    (wpc \in {"loop", "drain", "resid", "proc", "inproc"} /\ max > 0)
        => Len(batch) <= max

\* A full batch is delivered while its queue still holds an item.
C4_Witness ==
    /\ wpc = "inproc"
    /\ max > 0
    /\ Len(batch) = max
    /\ \E p \in Prio : queue[p] # <<>> /\ pushLog[batch[1]] = p

\* C5: a cycle that passed a queue that held items while its batch was full
\* has the wake signal set from then until its next wait.
C5_SelfYield == residue => workToDo

\* The worker passes, with a full batch, a queue whose last append is
\* ordered before the test of line 256, or one whose producer has signalled
SeesResidue ==
    /\ wpc = "resid"
    /\ max # 0
    /\ Len(batch) >= max
    /\ queue[wprio] # <<>>
    /\ vis[wprio] # "none"

\* In that case the wake signal is set when the worker leaves the test
SelfYieldOrdered == [][SeesResidue /\ wpc' # "resid" => workToDo']_vars


AllDelivered == done = Pushed /\ \A p \in Prio : queue[p] = <<>>

\* C6: once the worker is started, every item pushed is eventually
\* delivered and the queues are empty.
C6_EventualDelivery == [](mpc = "running" => <>AllDelivered)

\* Items that were pushed while the wake signal was already set are delivered.
C6_Witness ==
    /\ AllDelivered
    /\ Len(pushLog) = MaxItems
    /\ maxBatchSize = 1
    /\ wpc = "wait"
    /\ ~workToDo

\* What line 265 read and computed, at the end of a cycle
HoldOffDecided == wpc \in {"sleeping", "nosleep"}

\* The double nearest to ms/1000
Msec(ms) == DDiv[DFromInt[ms], Thousand]

\* Exact arithmetic on numbers s * n * 2^e (n any natural number): nothing
\* is rounded.
XInt(n) == <<1, BFromInt[n], 0>>
XNeg(x) == <<-x[1], x[2], x[3]>>
XAbs(x) == <<1, x[2], x[3]>>
\* x * 2^k
XScale(x, k) == <<x[1], x[2], x[3] + k>>
XMul(x, y) ==
    IF x[2] = <<>> \/ y[2] = <<>> THEN XInt(0)
    ELSE <<x[1] * y[1], BMul[x[2], y[2]], x[3] + y[3]>>
\* n with x = s * n * 2^e, for e <= x[3]
XMant(x, e) == BShl[x[2], x[3] - e]
XLow(x, y) == IF x[3] < y[3] THEN x[3] ELSE y[3]
XAddAt(x, y, e) ==
    IF x[1] = y[1] THEN <<x[1], BAdd[XMant(x, e), XMant(y, e)], e>>
    ELSE IF BCmp[XMant(x, e), XMant(y, e)] >= 0
    THEN <<x[1], BSub[XMant(x, e), XMant(y, e)], e>>
    ELSE <<y[1], BSub[XMant(y, e), XMant(x, e)], e>>
XAdd(x, y) == XAddAt(x, y, XLow(x, y))
XSub(x, y) == XAdd(x, XNeg(y))
XEq(x, y) == XSub(x, y)[2] = <<>>
\* |x| <= |y|
XLeqAbs(x, y) ==
    BCmp[XMant(x, XLow(x, y)), XMant(y, XLow(x, y))] <= 0

\* What line 265 read: the batch size, the arguments that were in force,
\* holdOffFix and holdOffVar
HoSize == hoInfo[1]
HoArgs == hoInfo[2]
HoFix == hoInfo[3]
HoVar == hoInfo[4]

\* holdOffFix + holdOffVar * n without any rounding
HoldOffExactly == XAdd(HoFix, XMul(HoVar, XInt(HoSize)))

\* |holdOffFix| + |holdOffVar| * n without any rounding
HoldOffSize == XAdd(XAbs(HoFix), XAbs(XMul(HoVar, XInt(HoSize))))

\* 1000 * x differs from ms by no more than 2^-(MantBits - 3) * mm
NearMsec(x, ms, mm) ==
    XLeqAbs(XSub(XMul(x, XInt(1000)), XInt(ms)),
            XScale(XInt(mm), -(MantBits - 3)))

\* sleep is called exactly when holdOff > 0, and holdOff is holdOffFix for
\* an empty batch
HoldOffSleep ==
    /\ (wpc = "sleeping") <=> DPositive(holdOff)
    /\ HoSize = 0 => holdOff = HoFix

\* The batch is full, and maxRequestsPerBatch and max are non-zero
FullBatch == HoArgs[1] > 0 /\ HoArgs[3] > 0 /\ HoSize = HoArgs[1]

\* The example: (10, 10 ms, 100 ms) and a batch of 5
HoldOffExample == HoArgs = <<10, 10, 100>> /\ HoSize = 5

\* C7 (as stated, in exact arithmetic): sleep is called exactly when
\* holdOff > 0, and holdOff is exactly holdOffFix + holdOffVar * n for the
\* batch size n; it is holdOffFix for n = 0; 1000 * holdOff is exactly max
\* for n = maxRequestsPerBatch when that and max are non-zero, and exactly
\* 55 for (10, 10 ms, 100 ms) and n = 5.
C7_HoldOffExact ==
    HoldOffDecided =>
        /\ XEq(holdOff, HoldOffExactly)
        /\ HoldOffSleep
        /\ FullBatch => XEq(XMul(holdOff, XInt(1000)), XInt(HoArgs[3]))
        /\ HoldOffExample => XEq(XMul(holdOff, XInt(1000)), XInt(55))

\* C7 (amended): sleep is called exactly when holdOff > 0; holdOff differs
\* from the exact holdOffFix + holdOffVar * n by no more than 2^-51 times
\* |holdOffFix| + |holdOffVar| * n; it is holdOffFix for n = 0; for a full
\* batch and for the example 1000 * holdOff differs from max and from 55 by
\* no more than 2^-50 times the larger of min and max.
C7_HoldOff ==
    HoldOffDecided =>
        /\ XLeqAbs(XSub(holdOff, HoldOffExactly),
                   XScale(HoldOffSize, -(MantBits - 2)))
        /\ HoldOffSleep
        /\ FullBatch =>
              NearMsec(holdOff, HoArgs[3],
                       IF HoArgs[2] > HoArgs[3] THEN HoArgs[2] ELSE HoArgs[3])
        /\ HoldOffExample => NearMsec(holdOff, 55, 100)

\* The worker sleeps after the batch of the example, for a time that is
\* not 0.055 and not the double nearest to it (the build has fused the
\* multiplication and the addition).
C7_Witness ==
    /\ wpc = "sleeping"
    /\ HoldOffExample
    /\ ~XEq(XMul(holdOff, XInt(1000)), XInt(55))
    /\ holdOff # Msec(55)

\* C8: when no setParams is running, holdOffFix and holdOffVar are the
\* values derived from the arguments of the last setParams call (holdOffVar
\* is 0 when maxRequestsPerBatch or maxHoldOff is 0).
C8_Recomputed ==
    (\A t \in Clients : cpc[t] # "s_body") =>
        /\ holdOffFix = Msec(args[2])
        /\ holdOffVar =
              IF args[1] > 0 /\ args[3] > 0
              THEN DDiv[DSub[DFromInt[args[3]], DFromInt[args[2]]],
                        DMul[DFromInt[args[1]], Thousand]]
              ELSE DZero

\* C9: the hold-off of a cycle is computed from the parameter set that the
\* cycle's max was read from.
C9_OneSnapshot == HoldOffDecided => hoInfo[2] = snapArgs

\* The locks thread t holds
QueueLocksOf(t) == {p \in Prio : lock[p] = t}
Threads == Clients \cup {Worker, Main}

\* Thread t is at a lock acquisition
AtAcquire(t) ==
    \/ t = Worker /\ wpc \in {"snap_lock", "loop", "ho_lock"}
    \/ t \in Clients /\ cpc[t] \in {"idle", "c_next"}

\* C10: no thread holds two queue locks, or paramLock and a queue lock, and
\* a thread that goes for a lock holds none.
C10_LockDiscipline ==
    \A t \in Threads :
        /\ Cardinality(QueueLocksOf(t)) <= 1
        /\ paramLock = t => QueueLocksOf(t) = {}
        /\ AtAcquire(t) => (QueueLocksOf(t) = {} /\ paramLock # t)

\* clear() has released the lock of its first queue and holds the lock of
\* its second queue, while a producer holds another queue lock.
C10_Witness ==
    /\ cpc["c1"] = "c_pop"
    /\ cprio["c1"] = menuPriorityMEDIUM
    /\ QueueLocksOf("c1") = {menuPriorityMEDIUM}
    /\ QueueLocksOf("c2") # {}

\* C11: while processRequests runs (entered by the worker thread only), the
\* worker holds no queue lock and not paramLock; every lock that is held is
\* held by a client thread.
C11_DeliveryUnlocked ==
    wpc = "inproc" =>
        /\ QueueLocksOf(Worker) = {}
        /\ paramLock # Worker
        /\ \A p \in Prio : lock[p] \in Clients \cup {NoThread}
        /\ paramLock \in Clients \cup {NoThread}

\* During a delivery a producer has taken the lock of the queue the batch
\* came from and has pushed to it.
C11_Witness ==
    /\ wpc = "inproc"
    /\ \E t \in Clients :
          /\ cpc[t] = "p_sig"
          /\ lock[cprio[t]] = t
          /\ pushLog[batch[1]] = cprio[t]
          /\ queue[cprio[t]] # <<>>

\* The lifecycle state of the batcher
Phase ==
    CASE mpc = "created" -> "Created"
      [] mpc = "running" -> "Running"
      [] mpc \in {"d_sig", "d_join"} -> "Draining"
      [] mpc = "stopped" -> "Stopped"

\* This step enters processRequests
EntersProcess == wpc = "proc" /\ wpc' = "inproc"

\* processRequests is not entered and not running while Created, nor
\* after the destructor's join
NoCallbackOutside ==
    /\ Phase \in {"Created", "Stopped"} => ~EntersProcess
    /\ Phase' \in {"Created", "Stopped"} => wpc' # "inproc"

\* C12, as stated: the lifecycle state changes only Created -> Running,
\* Running -> Draining, Draining -> Stopped, and processRequests is not
\* invoked while Created nor once Stopped.
C12_LifecycleChain ==
    [][ /\ \/ Phase' = Phase
           \/ <<Phase, Phase'>> \in {<<"Created", "Running">>,
                                     <<"Running", "Draining">>,
                                     <<"Draining", "Stopped">>}
        /\ NoCallbackOutside ]_vars

\* C12, amended: the lifecycle state changes only Created -> Running,
\* Running -> Draining, Draining -> Stopped, or Created -> Draining (the
\* destructor runs on a batcher that was never started), and
\* processRequests is not invoked while Created nor once Stopped.
C12_Lifecycle ==
    [][ /\ \/ Phase' = Phase
           \/ <<Phase, Phase'>> \in {<<"Created", "Running">>,
                                     <<"Running", "Draining">>,
                                     <<"Draining", "Stopped">>,
                                     <<"Created", "Draining">>}
        /\ NoCallbackOutside ]_vars

\* A batcher that was never started is destroyed with an item in a queue:
\* nothing was delivered.
C12_Witness ==
    /\ mpc = "stopped"
    /\ wpc = "idle"
    /\ \E p \in Prio : queue[p] # <<>>
    /\ done = {}

\* C13: once the destructor has set workerShutdown and signalled, a started
\* worker leaves run() and the destructor's exitWait() returns.
C13_ShutdownTerminates ==
    (mpc = "d_join" /\ wpc # "idle") ~> (mpc = "stopped" /\ wpc = "exited")

\* The batcher is destroyed after a delivery, with an item left in a queue.
C13_Witness ==
    /\ mpc = "stopped"
    /\ wpc = "exited"
    /\ done # {}
    /\ \E p \in Prio : queue[p] # <<>>

\* C14: while a vector push is between its lock and its unlock, it holds
\* the lock of its queue, the items it has appended are the last items of
\* the queue, in vector order, no item pushed by another call lies between
\* them, and neither the worker's drain nor clear() is at that queue.
C14_VectorAtomic ==
    \A t \in Clients :
        cpc[t] = "v_push" =>
            LET p == cprio[t]
                v == vecs[t]
                n == Len(v)
                q == queue[p]
            IN  /\ lock[p] = t
                /\ Len(q) >= n
                /\ SubSeq(q, Len(q) - n + 1, Len(q)) = v
                /\ \A y \in Pushed :
                      (n > 0 /\ v[1] < y /\ y < v[n] /\ pushLog[y] = p)
                          => y \in Range(v)
                /\ ~(wpc = "drain" /\ wprio = p)
                /\ \A u \in Clients : ~(cpc[u] = "c_pop" /\ cprio[u] = p)

\* A vector push has appended one of its two items; the worker is at the
\* lock of that queue, with room in its batch.
C14_Witness ==
    \E t \in Clients :
        /\ cpc[t] = "v_push"
        /\ Len(vecs[t]) = 1
        /\ ctodo[t] = 1
        /\ wpc = "loop"
        /\ wprio = cprio[t]
        /\ HasRoom(max, batch)

\* The argument of the last setParams that the accessor of a return names
Asked(r) ==
    CASE r[1] = "maxRequests" -> r[3][1]
      [] r[1] = "minHoldOff" -> r[3][2]
      [] r[1] = "maxHoldOff" -> r[3][3]

\* C15: a call of maxRequests(), minHoldOff() or maxHoldOff() during which
\* no setParams runs returns the argument of that name of the last
\* setParams call (or of the constructor).
C15_RoundTrip ==
    \A t \in DOMAIN pret :
        pret[t][4] => pret[t][2] = BFromInt[Asked(pret[t])]

RECURSIVE Flatten(_)
\* The batches of a log, concatenated
Flatten(bs) == IF bs = <<>> THEN <<>> ELSE Head(bs) \o Flatten(Tail(bs))

\* ceil(n / m)
CeilDiv(n, m) == (n + m - 1) \div m

\* The worker waits, no signal is pending and no call is running
CapQuiet ==
    /\ mpc = "running"
    /\ wpc = "wait"
    /\ ~workToDo
    /\ \A t \in Clients : cpc[t] = "idle"

\* C16: with max = m > 0 and N items of one priority queued before the
\* first drain, batch i has m items while i * m <= N and N - (i - 1) * m
\* items otherwise, the batches concatenated are the items in push order,
\* and when the worker has come to rest there are ceil(N / m) batches.
C16_CapResidue ==
    LET N == Len(pushLog)
        m == maxBatchSize
        B == delivered
    IN  /\ \A i \in 1 .. Len(B) :
              /\ (i - 1) * m < N
              /\ Len(B[i]) = IF i * m <= N THEN m ELSE N - (i - 1) * m
        /\ Flatten(B) = [i \in 1 .. Len(Flatten(B)) |-> i]
        /\ CapQuiet =>
              /\ Len(B) = CeilDiv(N, m)
              /\ Len(Flatten(B)) = N

\* m = 2, N = 5: batches of sizes 2, 2, 1, in push order.
C16_Witness ==
    /\ maxBatchSize = 2
    /\ delivered = << <<1, 2>>, <<3, 4>>, <<5>> >>
    /\ CapQuiet

\* Number of characters c in s
CountChar(s, c) == Cardinality({i \in 1 .. Len(s) : s[i] = c})

RECURSIVE Join(_, _)
\* The tokens with the delimiter between them
Join(ts, delim) ==
    IF Len(ts) = 1 THEN ts[1]
    ELSE ts[1] \o <<delim>> \o Join(Tail(ts), delim)

\* C17: for a string without backslashes splitString returns (number of
\* delimiters + 1) tokens, which joined by the delimiter are the string.
C17_TokenCount ==
    (spc = "done" /\ CountChar(str, Esc) = 0) =>
        /\ Len(tokens) = CountChar(str, defaultElementDelimiter) + 1
        /\ Join(tokens, defaultElementDelimiter) = str

\* ".a." gives an empty token, "a", and an empty token.
C17_Witness ==
    /\ spc = "done"
    /\ str = <<".", "a", ".">>
    /\ tokens = << <<>>, <<"a">>, <<>> >>

\* Positions of the delimiters of s with a backslash right before them
EscapedDelims(s, delim) ==
    {i \in 2 .. Len(s) : s[i] = delim /\ s[i - 1] = Esc}

\* Positions of the other delimiters of s
PlainDelims(s, delim) ==
    {i \in 1 .. Len(s) : s[i] = delim /\ (i = 1 \/ s[i - 1] # Esc)}

RECURSIVE ReEscape(_, _)
\* The token with a backslash put before each delimiter in it
ReEscape(t, delim) ==
    IF t = <<>> THEN <<>>
    ELSE (IF Head(t) = delim THEN <<Esc, delim>> ELSE <<Head(t)>>)
             \o ReEscape(Tail(t), delim)

\* C18: a delimiter with a backslash right before it does not end the
\* token and is in the token without that backslash; the other delimiters
\* end a token: there is one token more than there are such delimiters,
\* the tokens hold as many delimiters as were escaped, and putting the
\* backslashes back and joining the tokens gives the input.
C18_EscapedDelimiter ==
    spc = "done" =>
        LET d == defaultElementDelimiter
        IN  /\ Len(tokens) = Cardinality(PlainDelims(str, d)) + 1
            /\ CountChar(Join(tokens, "|"), d)
                   = Cardinality(EscapedDelims(str, d))
            /\ CountChar(Join(tokens, "|"), Esc)
                   = CountChar(str, Esc) - Cardinality(EscapedDelims(str, d))
            /\ Join([i \in 1 .. Len(tokens) |-> ReEscape(tokens[i], d)], d)
                   = str

\* An escaped delimiter at the start, then delimiters that split.
C18_Witness ==
    /\ spc = "done"
    /\ str = EscDot \o Dot \o Two \o Dot \o Three
    /\ tokens = <<Dot, Two, Three>>

\* The argument and the expectation of the test
\* splitString_seriesOfEscapedBackslashesAndDelimiters
SeriesInput ==
    One \o EscDot \o EscDot \o Bsl \o EscDot \o Two \o EscDot \o EscDot
        \o Bsl \o Three
SeriesExpect ==
    One \o Dot \o Dot \o Bsl \o Dot \o Two \o Dot \o Dot \o Bsl \o Three

\* C19, as stated: the rule 'a backslash is an escape for whatever
\* character follows it' gives, for the argument of every test, the list
\* the test expects.
C19_EscapeAnyRule ==
    spc = "done" =>
        \A c \in TestCorpus :
            c.s = str
                => SplitEscapeAny(str, defaultElementDelimiter) = c.expect

\* C19, amended: a backslash is an escape only for a delimiter right after
\* it; before any other character (a backslash too) it is appended like
\* any character.  The result is the list every test expects, and it is
\* the result of the rule as stated for the strings in which every
\* backslash has a delimiter right after it.
C19_EscapeRule ==
    spc = "done" =>
        /\ \A c \in TestCorpus : c.s = str => tokens = c.expect
        /\ (\A i \in 1 .. Len(str) :
               str[i] = Esc
                   => (i < Len(str) /\ str[i + 1] = defaultElementDelimiter))
               => tokens = SplitEscapeAny(str, defaultElementDelimiter)

\* one\.\.\\.two\.\.\three gives the one token one..\.two..\three
C19_Witness ==
    /\ spc = "done"
    /\ str = SeriesInput
    /\ tokens = <<SeriesExpect>>

\* s is an initial part of t
IsPrefix(s, t) == Len(s) <= Len(t) /\ SubSeq(t, 1, Len(s)) = s

\* HIGH, MID queued, HIGH pushed later
HighMidHigh == <<menuPriorityHIGH, menuPriorityMEDIUM, menuPriorityHIGH>>

\* C20: an item of priority p is in the worker's batch only if the queue of
\* every higher priority was empty when the worker released its lock in
\* this cycle; with max = 1, a HIGH and a MID item queued and a HIGH item
\* pushed during the first hold-off, the batches are [HIGH], [HIGH], [MID].
C20_StrictPriority ==
    /\ \A i \in 1 .. Len(batch) : \A q \in Prio :
          q > pushLog[batch[i]] => q \in relEmpty
    /\ (maxBatchSize = 1 /\ pushLog = HighMidHigh) =>
          /\ IsPrefix(delivered, << <<1>>, <<3>>, <<2>> >>)
          /\ CapQuiet => delivered = << <<1>>, <<3>>, <<2>> >>

\* The three batches [HIGH], [HIGH], [MID] have been delivered.
C20_Witness ==
    /\ maxBatchSize = 1
    /\ pushLog = HighMidHigh
    /\ delivered = << <<1>>, <<3>>, <<2>> >>
    /\ CapQuiet

\* The items pushed with priority p, in push order
PushedAt(p) == SelectSeq([i \in 1 .. Len(pushLog) |-> i],
                         LAMBDA i : pushLog[i] = p)

\* All items pushed: HIGH first, then MID, then LOW, each in push order
ByPriority == PushedAt(menuPriorityHIGH) \o PushedAt(menuPriorityMEDIUM)
                  \o PushedAt(menuPriorityLOW)

\* 3 LOW, 2 MID, 1 HIGH
ThreeTwoOne == <<menuPriorityLOW, menuPriorityLOW, menuPriorityLOW,
                 menuPriorityMEDIUM, menuPriorityMEDIUM, menuPriorityHIGH>>

\* The worker is in the loop over the priorities (lines 248-258) of a cycle
\* whose max is 0
UnlimitedCycle == max = 0 /\ wpc \in {"loop", "drain", "resid", "proc"}

\* C21: in a cycle whose max is 0 the worker takes the lock of every queue,
\* moves all the items of the queue to the end of the batch and releases
\* the lock of an empty queue; items queued before a single wake are
\* delivered in one batch: HIGH, then MID, then LOW.
C21_Unlimited ==
    /\ [](UnlimitedCycle =>
            /\ wpc = "loop" => HasRoom(max, batch)
            /\ wpc = "resid" => wprio \in relEmpty
            /\ wpc = "proc" => relEmpty = Prio)
    /\ [][(UnlimitedCycle /\ wpc = "drain" /\ wpc' = "resid") =>
            /\ batch' = batch \o queue[wprio]
            /\ queue'[wprio] = <<>>
            /\ lock'[wprio] = NoThread]_vars
    /\ []((maxBatchSize = 0 /\ delivered # <<>>) =>
            delivered = <<ByPriority>>)
    /\ []((maxBatchSize = 0 /\ CapQuiet /\ pushLog # <<>>) =>
            delivered = <<ByPriority>>)

\* 3 LOW, 2 MID and 1 HIGH were delivered as [HIGH, MID, MID, LOW, LOW, LOW]
C21_Witness ==
    /\ maxBatchSize = 0
    /\ pushLog = ThreeTwoOne
    /\ delivered = << <<6, 4, 5, 1, 2, 3>> >>
    /\ CapQuiet

\* C22: processRequests is never called with an empty batch.  A cycle whose
\* batch is empty calls nothing, computes holdOff = holdOffFix, sleeps if
\* and only if that is positive, and goes back to the wait; a vector push
\* of an empty vector signals the event.
C22_NoEmptyDelivery ==
    /\ [](/\ \A i \in 1 .. Len(delivered) : delivered[i] # <<>>
          /\ wpc = "inproc" => batch # <<>>)
    /\ [][(wpc = "proc" /\ batch = <<>> /\ wpc' # wpc) =>
            /\ wpc' = "ho_lock"
            /\ delivered' = delivered
            /\ done' = done]_vars
    /\ []((HoldOffDecided /\ hoInfo[1] = 0) =>
            /\ holdOff = hoInfo[3]
            /\ wpc = "sleeping" <=> DPositive(hoInfo[3]))
    /\ [][(HoldOffDecided /\ hoInfo[1] = 0 /\ wpc' # wpc) =>
            /\ wpc' = "wait"
            /\ delivered' = delivered]_vars
    /\ [][\A t \in Clients :
            (cpc[t] = "v_push" /\ ctodo[t] = 0 /\ vecs[t] = <<>>
                /\ cpc'[t] = "idle") => workToDo']_vars

\* Nothing was ever pushed but an empty vector: the worker was woken, has
\* delivered nothing and sleeps the fixed hold-off.
C22_Witness ==
    /\ pushLog = <<>>
    /\ budget = MaxItems
    /\ calls < MaxCalls
    /\ mpc = "running"
    /\ wpc = "sleeping"
    /\ hoInfo[1] = 0
    /\ DPositive(holdOff)
    /\ delivered = <<>>

\* Thread t takes the step of clear() that empties queue[p] (lines 184-187)
ClearsQueue(t, p) ==
    cpc[t] = "c_pop" /\ cprio[t] = p /\ cpc'[t] # "c_pop"

\* C23: clear() begins with the HIGH queue and goes down one priority at a
\* time; it empties a queue while it holds that queue's lock and no other
\* queue lock, and touches neither the other queues nor the worker's batch
\* nor what was delivered; an item it removed is never in a batch or
\* delivered; without a concurrent push all queues are empty when it
\* returns.
C23_ClearQueuedOnly ==
    /\ [](\A t \in Admins :
            /\ cpc[t] = "c_pop" => QueueLocksOf(t) = {cprio[t]}
            /\ cpc[t] = "c_next" => QueueLocksOf(t) = {})
    /\ [](cleared \cap (Range(batch) \cup done
                          \cup Range(Flatten(delivered))) = {})
    /\ [][\A t \in Admins :
            /\ (cpc[t] = "idle" /\ cpc'[t] = "c_pop") =>
                  cprio'[t] = menuPriorityHIGH
            /\ (cpc[t] = "c_next" /\ cpc'[t] = "c_pop") =>
                  cprio'[t] = cprio[t]
            /\ \A p \in Prio : ClearsQueue(t, p) =>
                  /\ queue' = [queue EXCEPT ![p] = <<>>]
                  /\ cleared' = cleared \cup Range(queue[p])
                  /\ lock' = [lock EXCEPT ![p] = NoThread]
                  /\ batch' = batch /\ done' = done
                  /\ delivered' = delivered
                  /\ IF p > menuPriorityLOW
                     THEN cpc'[t] = "c_next" /\ cprio'[t] = p - 1
                     ELSE /\ cpc'[t] = "idle"
                          /\ \A q \in Prio : queue'[q] = <<>>]_vars

\* clear() has removed an item of a queue from which the worker had taken
\* an earlier item; clear() has returned, the queues are empty and the
\* earlier item is being delivered.
C23_Witness ==
    /\ cpc["c1"] = "idle"
    /\ \A p \in Prio : queue[p] = <<>>
    /\ wpc = "inproc"
    /\ \E x \in Range(batch), y \in cleared :
          pushLog[x] = pushLog[y] /\ x < y

\* Thread t is about to modify queue[p] (push or pop)
Modifies(t, p) ==
    \/ /\ t \in Clients
       /\ cprio[t] = p
       /\ \/ cpc[t] \in {"p_push", "c_pop"}
          \/ cpc[t] = "v_push" /\ ctodo[t] > 0
    \/ t = Worker /\ wprio = p /\ wpc = "drain"

\* Thread t is about to read queue[p] without modifying it: empty(),
\* size(), the test of line 256
Reads(t, p) ==
    \/ t \in Clients /\ cprio[t] = p /\ cpc[t] \in {"e_read", "z_read"}
    \/ t = Worker /\ wprio = p /\ wpc = "resid"

\* C24: a thread that modifies or reads queue[p] holds lock[p]; no thread
\* reads queue[p] without lock[p] while another thread modifies it.
C24_QueueGuarded ==
    /\ \A t \in Threads, p \in Prio :
          (Modifies(t, p) \/ Reads(t, p)) => lock[p] = t
    /\ ~ \E r \in Threads, m \in Threads, p \in Prio :
          /\ r # m
          /\ Reads(r, p) /\ lock[p] # r
          /\ Modifies(m, p)

\* The items delivered so far, in the order of delivery
Delivered == Flatten(delivered)

\* C25: after workerShutdown has been set, the worker begins at most one
\* more call of processRequests; a worker that has left run() delivers
\* nothing and takes nothing from the queues; the delivered items are
\* pushed items, none twice, and items of one priority are delivered in
\* push order.
C25_BoundedAfterShutdown ==
    /\ [](workerShutdown => Len(delivered) <= shutMark + 1)
    /\ [][wpc = "exited" =>
            /\ wpc' = "exited"
            /\ delivered' = delivered
            /\ \A p \in Prio : Len(queue'[p]) >= Len(queue[p])]_vars
    /\ [](/\ Len(Delivered) <= Len(pushLog)
          /\ Range(Delivered) \subseteq Pushed
          /\ \A i, j \in 1 .. Len(Delivered) :
                i < j =>
                   /\ Delivered[i] # Delivered[j]
                   /\ pushLog[Delivered[i]] = pushLog[Delivered[j]] =>
                         Delivered[i] < Delivered[j])

\* A call of pushRequest (either overload) is in progress
PushInProgress == \E t \in Clients : cpc[t] \in {"p_push", "p_sig", "v_push"}

\* C26: when the worker is blocked in its wait, the event is empty and no
\* pushRequest is in progress, all queues are empty; the event, once
\* full, stays full until the worker's wait takes it.
C26_NoLostWakeup ==
    /\ []((wpc = "wait" /\ ~workToDo /\ ~PushInProgress) =>
            \A p \in Prio : queue[p] = <<>>)
    /\ [][(workToDo /\ ~workToDo') => (wpc = "wait" /\ wpc' = "chk")]_vars

\* Items were pushed before startWorker() and during the first cycle; the
\* worker has delivered them in two cycles and waits again.
C26_Witness ==
    /\ mpc = "running"
    /\ wpc = "wait"
    /\ ~workToDo
    /\ ~PushInProgress
    /\ Len(delivered) = 2
    /\ Len(pushLog) = MaxItems
    /\ done = Pushed

====
